---- MODULE Spec2Model ----
(***************************************************************************)
(* Event ingestion, deduplication and retry-escalating worker pipeline of  *)
(* health-service, over the in-memory and the receive-and-delete (SQS)     *)
(* queue clients.                                                          *)
(*                                                                         *)
(* Python values are tagged records: NoneV, IntV(n), StrV(s),          *)
(* DictV(d).  A                                                            *)
(* Python str is a sequence of one-character strings, so that str(),       *)
(* int(), "|".join and split("-") are computed character by character.     *)
(* An event is a DictV whose record maps the keys that are present.        *)
(***************************************************************************)
EXTENDS Integers, Sequences, FiniteSets, TLC

VARIABLES
    backend,        \* QUEUE_BACKEND the queue client was constructed for
    queue_url_map,  \* AwsSqsQueueClient._queue_url_map
    topics,         \* InMemoryQueueClient._topics: topic -> deque of entries
    sqs_queues,     \* the SQS service: queue URL -> messages
    pubsub,         \* the Pub/Sub service: subscription -> ready and outstanding messages
    lock,           \* InMemoryQueueClient._lock: the thread that holds it, or "free"
    threads,        \* thread -> its call on the in-memory client and where it stands
    seen,           \* DedupeStage._seen
    output_log,     \* lines of PersistStage.output_path
    pc,             \* position of run_forever / _drain_topic
    batch,          \* events of the dequeued batch not yet processed
    processed_raw,  \* run_forever: processed_raw
    processed_retry,\* run_forever: processed_retry (processed of the current drain)
    returned,       \* history: topic -> messages its drain of this cycle returned
    runs,           \* history: one record per event the drain loop handled
    ningest,        \* number of webhook deliveries so far
    last,           \* history: the call made by the step just taken, and its result
    published,      \* history: topic -> events published to it (queue-client runs)
    consumed,       \* history: topic -> events returned by consume_batch
    popped,         \* history: topic -> events returned by pop_all
    ncalls          \* number of queue-client calls so far (queue-client runs)

vars == <<backend, queue_url_map, topics, sqs_queues, pubsub, lock, threads, seen, output_log, pc, batch,
          processed_raw, processed_retry, returned, runs, ningest, last, published,
          consumed, popped, ncalls>>

workerVars == <<seen, output_log, pc, batch, processed_raw, processed_retry, returned, runs>>
clientHist == <<published, consumed, popped, ncalls>>

(***************************************************************************)
(* Bounds of the model and constants of the program.                       *)
(***************************************************************************)
MaxIngest == 2      \* webhook deliveries in one behaviour
MaxOps == 4         \* queue-client calls in one behaviour (queue-client runs)
MaxLog == 3         \* lines of the output log (persist-stage runs)
batch_size == 2     \* WORKER_BATCH_SIZE of the modelled deployment
max_retries == 3    \* WORKER_MAX_RETRIES, default
SqsMaxBatch == 10   \* the backend's cap on MaxNumberOfMessages
SqsMaxWait == 20    \* the backend's cap on WaitTimeSeconds
Backlog == 12       \* messages waiting in the raw queue (receive runs)

\* the threads that call one in-memory client: two producers, one consumer
Producers == {"producer1", "producer2"}
Threads == Producers \cup {"consumer"}
Idle == [pc |-> "idle"]

raw_topic == "fitbit.notifications.raw"
retry_topic == "fitbit.notifications.retry"
dlq_topic == "fitbit.notifications.dlq"
Topics == {raw_topic, retry_topic, dlq_topic}

(***************************************************************************)
(* Python values.                                                          *)
(***************************************************************************)
NoneV == [t |-> "none"]
IntV(n) == [t |-> "int", v |-> n]
StrV(s) == [t |-> "str", v |-> s]
DictV(d) == [t |-> "dict", v |-> d]

\* isinstance(x, dict)
IsDict(x) == x.t = "dict"

\* key in event
Has(event, key) == key \in DOMAIN event.v

\* event.get(key, default)
Get(event, key, default) == IF Has(event, key) THEN event.v[key] ELSE default

Min(a, b) == IF a < b THEN a ELSE b
Max(a, b) == IF a > b THEN a ELSE b

Digits == <<"0", "1", "2", "3", "4", "5", "6", "7", "8", "9">>
IsDigit(c) == \E i \in 1..10 : Digits[i] = c
DigitVal(c) == (CHOOSE i \in 1..10 : Digits[i] = c) - 1

RECURSIVE NatToStr(_)
NatToStr(n) == IF n < 10 THEN <<Digits[n + 1]>>
               ELSE NatToStr(n \div 10) \o <<Digits[(n % 10) + 1]>>

\* str(x)
PyStr(x) ==
    CASE x.t = "str" -> x.v
      [] x.t = "int" -> IF x.v < 0 THEN <<"-">> \o NatToStr(0 - x.v) ELSE NatToStr(x.v)
      [] x.t = "none" -> <<"N", "o", "n", "e">>

\* bool(x)
PyTruthy(x) ==
    CASE x.t = "str" -> x.v # <<>>
      [] x.t = "int" -> x.v # 0
      [] x.t = "none" -> FALSE
      [] x.t = "dict" -> DOMAIN x.v # {}
      [] x.t = "list" -> x.v # <<>>

\* s.strip(), for the one whitespace character of the model's alphabet
RECURSIVE LStrip(_)
LStrip(s) == IF s # <<>> /\ Head(s) = " " THEN LStrip(Tail(s)) ELSE s
RECURSIVE RStrip(_)
RStrip(s) == IF s # <<>> /\ s[Len(s)] = " " THEN RStrip(SubSeq(s, 1, Len(s) - 1)) ELSE s
Strip(s) == RStrip(LStrip(s))

RECURSIVE DigitsVal(_, _)
DigitsVal(s, acc) == IF s = <<>> THEN acc
                     ELSE DigitsVal(Tail(s), acc * 10 + DigitVal(Head(s)))

\* int(s) for a str: surrounding whitespace, an optional sign, then digits;
\* anything else raises ValueError.
IntOfStr(s) ==
    LET b == Strip(s)
        signed == b # <<>> /\ Head(b) \in {"+", "-"}
        d == IF signed THEN Tail(b) ELSE b
    IN  IF d # <<>> /\ \A i \in 1..Len(d) : IsDigit(d[i])
        THEN [ok |-> TRUE,
              val |-> IF signed /\ Head(b) = "-" THEN 0 - DigitsVal(d, 0)
                      ELSE DigitsVal(d, 0)]
        ELSE [ok |-> FALSE, val |-> 0]

\* int(x): a str is parsed, an int is itself, None and a dict raise TypeError.
PyInt(x) ==
    CASE x.t = "int" -> [ok |-> TRUE, val |-> x.v]
      [] x.t = "str" -> IntOfStr(x.v)
      [] x.t = "none" -> [ok |-> FALSE, val |-> 0]
      [] x.t = "dict" -> [ok |-> FALSE, val |-> 0]

\* int(event.get("retry_count", 0) or 0)
RetryCountOf(event) ==
    LET x == Get(event, "retry_count", IntV(0))
    IN  PyInt(IF PyTruthy(x) THEN x ELSE IntV(0))

\* sep.join(parts)
RECURSIVE Join(_, _)
Join(sep, parts) ==
    IF parts = <<>> THEN <<>>
    ELSE IF Len(parts) = 1 THEN parts[1]
    ELSE parts[1] \o sep \o Join(sep, Tail(parts))

\* s.split(sep)[0]: the part of s before the first sep (all of s without one)
RECURSIVE SplitFirst(_, _)
SplitFirst(s, sep) ==
    IF s = <<>> \/ Head(s) = sep THEN <<>>
    ELSE <<Head(s)>> \o SplitFirst(Tail(s), sep)

\* sub in s, for a one-character sub
Contains(s, c) == \E i \in 1..Len(s) : s[i] = c

\* s.lower(), for the alphabet of the model (whose upper-case letters are
\* those of "None", "SLEEP" and "Body")
LowerChar(c) ==
    CASE c = "N" -> "n" [] c = "S" -> "s" [] c = "L" -> "l" [] c = "E" -> "e"
      [] c = "P" -> "p" [] c = "B" -> "b" [] OTHER -> c

Lower(s) == [i \in 1..Len(s) |-> LowerChar(s[i])]

(***************************************************************************)
(* The pipeline stages (app/workers/fitbit_worker.py).                     *)
(***************************************************************************)
Fitbit == <<"f", "i", "t", "b", "i", "t">>
EmptyStr == StrV(<<>>)

\* WORKER_DEFAULT_USER_ID, default "me"
DefaultUserId == <<"m", "e">>

\* The credential store: the user ids get_tokens("fitbit", user_id) finds a
\* token document for.
StoredTokens == {<<"u", "1">>}

\* get_tokens("fitbit", user_id) is not None
GetTokens(user_id) == user_id \in StoredTokens

\* ParseStage.run; received_at (the clock) is left out of the context.
ParseRun(event) ==
    LET rc == RetryCountOf(event)
    IN  [raised |-> ~rc.ok,
         context |-> [event |-> event, retry_count |-> rc.val, provider |-> Fitbit]]

\* DedupeStage._key with subscriptionId before ownerId
DedupeKey_Swapped(event) ==
    Join(<<"|">>, <<Fitbit,
                    PyStr(Get(event, "subscriptionId", EmptyStr)),
                    PyStr(Get(event, "ownerId", EmptyStr)),
                    PyStr(Get(event, "collectionType", EmptyStr)),
                    PyStr(Get(event, "date", EmptyStr))>>)

\* DedupeStage._key
DedupeKey(event) ==
    Join(<<"|">>, <<Fitbit,
                    PyStr(Get(event, "ownerId", EmptyStr)),
                    PyStr(Get(event, "subscriptionId", EmptyStr)),
                    PyStr(Get(event, "collectionType", EmptyStr)),
                    PyStr(Get(event, "date", EmptyStr))>>)

\* DedupeStage.run without its _seen.add(key)
DedupeMark_NoInsert(seen_, context, key) ==
    [seen |-> seen_,
     context |-> [event |-> context.event, retry_count |-> context.retry_count,
                  provider |-> context.provider, dedupe_key |-> key,
                  is_duplicate |-> key \in seen_]]

\* DedupeStage.run from "context["dedupe_key"] = key" on: the context with
\* dedupe_key and is_duplicate, and _seen after it.
DedupeMark(seen_, context, key) ==
    [seen |-> IF ~(key \in seen_) THEN seen_ \cup {key} ELSE seen_,
     context |-> [event |-> context.event, retry_count |-> context.retry_count,
                  provider |-> context.provider, dedupe_key |-> key,
                  is_duplicate |-> key \in seen_]]

\* DedupeStage.run
DedupeRun(seen_, context) == DedupeMark(seen_, context, DedupeKey(context.event))

\* _infer_user_id splitting whatever the text holds, with no default
UserIdOf_NoDefault(subscription_id) == SplitFirst(subscription_id, "-")

\* FetchDetailsStage._infer_user_id, given the stripped str of subscriptionId
UserIdOf(subscription_id) ==
    IF subscription_id # <<>> /\ Contains(subscription_id, "-")
    THEN SplitFirst(subscription_id, "-")
    ELSE DefaultUserId

\* FetchDetailsStage._infer_user_id
InferUserId(event) == UserIdOf(Strip(PyStr(Get(event, "subscriptionId", EmptyStr))))

Activities == <<"a", "c", "t", "i", "v", "i", "t", "i", "e", "s">>
Sleep == <<"s", "l", "e", "e", "p">>
Body == <<"b", "o", "d", "y">>

\* str(exc) of the RuntimeError of FetchDetailsStage.run, of an error of the
\* provider API client, and of an OSError of PersistStage.run
NoTokensError(user_id) ==
    <<"N", "o", " ", "F", "i", "t", "b", "i", "t", " ", "t", "o", "k", "e", "n", "s",
      " ", "f", "o", "u", "n", "d", " ", "f", "o", "r", " ", "u", "s", "e", "r", "_",
      "i", "d", "=">> \o user_id
ProviderError == <<"p", "r", "o", "v", "i", "d", "e", "r", " ", "e", "r", "r", "o", "r">>
PersistError == <<"o", "s", " ", "e", "r", "r", "o", "r">>

\* The provider fetchers FetchDetailsStage.run calls for a collection and date.
FetchersFor(collection, event_date) ==
    IF event_date = <<>> THEN <<>>
    ELSE CASE collection = Activities -> <<"steps", "calories", "hrv">>
           [] collection = Sleep -> <<"sleep">>
           [] collection = Body -> <<"weight">>
           [] OTHER -> <<>>

\* FetchDetailsStage.run raising for a collectionType it has no fetcher for
FetchFor_UnknownRaises(user_id, collection, event_date, calls, provider_ok) ==
    IF ~GetTokens(user_id)
    THEN [raised |-> TRUE, exc |-> NoTokensError(user_id), calls |-> <<>>,
          details |-> NoneV]
    ELSE IF (calls # <<>> /\ ~provider_ok) \/ collection \notin {Activities, Sleep, Body}
    THEN [raised |-> TRUE, exc |-> ProviderError, calls |-> calls, details |-> NoneV]
    ELSE [raised |-> FALSE, exc |-> <<>>, calls |-> calls,
          details |-> [user_id |-> user_id, collectionType |-> collection,
                       date |-> event_date, fetched |-> calls, note |-> FALSE]]

\* FetchDetailsStage.run from get_tokens on.  provider_ok: whether the provider
\* API calls of this run succeed.  The fetched payloads are opaque:
\* details.fetched names them; calls are the provider calls made.
FetchFor(user_id, collection, event_date, calls, provider_ok) ==
    IF ~GetTokens(user_id)
    THEN [raised |-> TRUE, exc |-> NoTokensError(user_id), calls |-> <<>>,
          details |-> NoneV]
    ELSE IF calls # <<>> /\ ~provider_ok
    THEN [raised |-> TRUE, exc |-> ProviderError, calls |-> calls, details |-> NoneV]
    ELSE [raised |-> FALSE, exc |-> <<>>, calls |-> calls,
          details |-> [user_id |-> user_id, collectionType |-> collection,
                       date |-> event_date, fetched |-> calls,
                       note |-> collection \notin {Activities, Sleep, Body}]]

FetchCollection(user_id, collection, event_date, provider_ok) ==
    FetchFor(user_id, collection, event_date, FetchersFor(collection, event_date),
             provider_ok)

\* FetchDetailsStage.run
FetchDetailsRun(context, provider_ok) ==
    FetchCollection(InferUserId(context.event),
                    Lower(PyStr(Get(context.event, "collectionType", EmptyStr))),
                    PyStr(Get(context.event, "date", EmptyStr)),
                    provider_ok)

\* PersistStage.run keeping one record per dedupe key: a record with the key
\* of the context is replaced
PersistRun_Upsert(log, context, details, io_ok) ==
    IF io_ok
    THEN [raised |-> FALSE,
          log |-> Append(SelectSeq(log, LAMBDA rec : rec.dedupe_key # context.dedupe_key),
                         [event |-> context.event, details |-> details,
                          dedupe_key |-> context.dedupe_key])]
    ELSE [raised |-> TRUE, log |-> log]

\* PersistStage.run: the record appended to the output file; processed_at (the
\* clock) is left out.  io_ok: whether mkdir, open and write succeed.
PersistRun(log, context, details, io_ok) ==
    IF io_ok
    THEN [raised |-> FALSE,
          log |-> Append(log, [event |-> context.event, details |-> details,
                               dedupe_key |-> context.dedupe_key])]
    ELSE [raised |-> TRUE, log |-> log]

\* What one run of _process_event leaves: the seen-set and the output log
\* after it, whether it raised and with which text, and the stages it called.
Outcome(seen_, log, raised, exc, stage, key, called, calls) ==
    [seen |-> seen_, log |-> log, raised |-> raised, exc |-> exc, stage |-> stage,
     is_duplicate |-> stage = "duplicate", dedupe_key |-> key,
     fetch_called |-> "fetch_details" \in called, persist_called |-> "persist" \in called,
     calls |-> calls]

\* _process_event after the persist stage ran
AfterPersist(seen_, log, context, calls, w) ==
    IF w.raised
    THEN Outcome(seen_, log, TRUE, PersistError, "persist", context.dedupe_key,
                 {"fetch_details", "persist"}, calls)
    ELSE Outcome(seen_, w.log, FALSE, <<>>, "done", context.dedupe_key,
                 {"fetch_details", "persist"}, calls)

\* _process_event taking the key out of _seen again when fetch_details raised
AfterFetch_Rollback(seen_, log, context, f, io_ok) ==
    IF f.raised
    THEN Outcome(seen_ \ {context.dedupe_key}, log, TRUE, f.exc, "fetch_details",
                 context.dedupe_key, {"fetch_details"}, f.calls)
    ELSE AfterPersist(seen_, log, context, f.calls,
                      PersistRun(log, context, f.details, io_ok))

\* _process_event after the fetch_details stage ran
AfterFetch(seen_, log, context, f, io_ok) ==
    IF f.raised
    THEN Outcome(seen_, log, TRUE, f.exc, "fetch_details", context.dedupe_key,
                 {"fetch_details"}, f.calls)
    ELSE AfterPersist(seen_, log, context, f.calls,
                      PersistRun(log, context, f.details, io_ok))

\* _process_event raising for a duplicate in place of returning
AfterDedupe_DuplicateRaises(log, d, provider_ok, io_ok) ==
    IF d.context.is_duplicate
    THEN Outcome(d.seen, log, TRUE, ProviderError, "dedupe", d.context.dedupe_key, {},
                 <<>>)
    ELSE AfterFetch(d.seen, log, d.context, FetchDetailsRun(d.context, provider_ok),
                    io_ok)

\* _process_event without its early return for a duplicate
AfterDedupe_NoSkip(log, d, provider_ok, io_ok) ==
    AfterFetch(d.seen, log, d.context, FetchDetailsRun(d.context, provider_ok), io_ok)

\* _process_event after the dedupe stage ran: a duplicate returns here
AfterDedupe(log, d, provider_ok, io_ok) ==
    IF d.context.is_duplicate
    THEN Outcome(d.seen, log, FALSE, <<>>, "duplicate", d.context.dedupe_key, {}, <<>>)
    ELSE AfterFetch(d.seen, log, d.context, FetchDetailsRun(d.context, provider_ok),
                    io_ok)

\* _process_event after the parse stage ran
AfterParse(seen_, log, p, provider_ok, io_ok) ==
    IF p.raised
    THEN Outcome(seen_, log, TRUE, <<>>, "parse", <<>>, {}, <<>>)
    ELSE AfterDedupe(log, DedupeRun(seen_, p.context), provider_ok, io_ok)

\* FitbitEventWorker._process_event
ProcessEvent(seen_, log, event, provider_ok, io_ok) ==
    AfterParse(seen_, log, ParseRun(event), provider_ok, io_ok)

\* dict(event) with last_error set and retry_count copied, not incremented
Updated_NoIncrement(event, retry_count, exc) ==
    DictV([k \in DOMAIN event.v \cup {"retry_count", "last_error"} |->
             IF k = "retry_count" THEN IntV(retry_count)
             ELSE IF k = "last_error" THEN StrV(exc)
             ELSE event.v[k]])

\* dict(event) with retry_count and last_error set
Updated(event, retry_count, exc) ==
    DictV([k \in DOMAIN event.v \cup {"retry_count", "last_error"} |->
             IF k = "retry_count" THEN IntV(retry_count + 1)
             ELSE IF k = "last_error" THEN StrV(exc)
             ELSE event.v[k]])

\* FitbitEventWorker._handle_failure up to its publish_many call: whether
\* reading retry_count raised, and the topic and the copy it publishes.
\* _handle_failure comparing with <= in place of <
Route_OffByOne(event, rc, exc) ==
    [raised |-> ~rc.ok,
     topic |-> IF rc.val <= max_retries THEN retry_topic ELSE dlq_topic,
     updated |-> Updated(event, rc.val, exc), event |-> event]

\* _handle_failure with "updated = event" in place of "updated = dict(event)":
\* the two assignments write into the dequeued event
Route_InPlace(event, rc, exc) ==
    [raised |-> ~rc.ok,
     topic |-> IF rc.val < max_retries THEN retry_topic ELSE dlq_topic,
     updated |-> Updated(event, rc.val, exc), event |-> Updated(event, rc.val, exc)]

\* _handle_failure from its comparison with max_retries on; event is the
\* dequeued event as the call leaves it
Route(event, rc, exc) ==
    [raised |-> ~rc.ok,
     topic |-> IF rc.val < max_retries THEN retry_topic ELSE dlq_topic,
     updated |-> Updated(event, rc.val, exc), event |-> event]

HandleFailure(event, exc) == Route(event, RetryCountOf(event), exc)

(***************************************************************************)
(* The queue clients (app/services/event_bus.py).  A queued entry carries, *)
(* beside the object, the topic name it was published under (via): a       *)
(* history field no code reads.                                            *)
(***************************************************************************)
Entry(obj, topic) == [obj |-> obj, via |-> topic]

\* publish assigning a new deque holding the event in place of appending
MemPublish_Assign(tp, topic, event) == [tp EXCEPT ![topic] = <<Entry(event, topic)>>]

\* InMemoryQueueClient.publish
MemPublish(tp, topic, event) == [tp EXCEPT ![topic] = Append(@, Entry(event, topic))]

\* the loop body of publish_many counting every item, dict or not
MemPublishItem_CountAll(r, topic, event) ==
    IF IsDict(event)
    THEN [topics |-> MemPublish(r.topics, topic, event), ret |-> r.ret + 1]
    ELSE [topics |-> r.topics, ret |-> r.ret + 1]

\* InMemoryQueueClient.publish_many: the body of its loop, on the topics and
\* the count published so far
MemPublishItem(r, topic, event) ==
    IF IsDict(event)
    THEN [topics |-> MemPublish(r.topics, topic, event), ret |-> r.ret + 1]
    ELSE r

\* InMemoryQueueClient.publish_many: the loop over events
RECURSIVE MemPublishLoop(_, _, _)
MemPublishLoop(r, topic, events) ==
    IF events = <<>> THEN r
    ELSE MemPublishLoop(MemPublishItem(r, topic, Head(events)), topic, Tail(events))

\* InMemoryQueueClient.publish_many
MemPublishMany(tp, topic, events) ==
    MemPublishLoop([topics |-> tp, ret |-> 0], topic, events)

\* InMemoryQueueClient.size
MemSize(tp, topic) == Len(tp[topic])

\* pop_all clearing the dict of queues instead of the queue of its topic
MemPopAll_ClearsAll(tp, topic) == [topics |-> [t \in DOMAIN tp |-> <<>>], ret |-> tp[topic]]

\* InMemoryQueueClient.pop_all
MemPopAll(tp, topic) == [topics |-> [tp EXCEPT ![topic] = <<>>], ret |-> tp[topic]]

\* consume_batch reading the first count events without removing them
MemConsumeBatch_NoRemove(tp, topic, max_messages) ==
    [topics |-> tp,
     ret |-> SubSeq(tp[topic], 1, Min(max_messages, Len(tp[topic])))]

\* InMemoryQueueClient.consume_batch: count = min(max_messages, len(queue))
\* poplefts (none when count is not positive)
\* consume_batch popping the whole queue whatever max_messages is
MemConsumeBatch_WholeQueue(tp, topic, max_messages) ==
    [topics |-> [tp EXCEPT ![topic] = <<>>], ret |-> tp[topic]]

MemConsumeBatch(tp, topic, max_messages) ==
    LET count == Min(max_messages, Len(tp[topic]))
    IN  IF count <= 0 THEN [topics |-> tp, ret |-> <<>>]
        ELSE [topics |-> [tp EXCEPT ![topic] = SubSeq(@, count + 1, Len(@))],
              ret |-> SubSeq(tp[topic], 1, count)]

\* json.dumps / json.loads: a message body is the JSON text of a value, kept as
\* the value it denotes; a body that is not JSON text does not load.
JsonDumps(x) == [t |-> "json", v |-> x]
JsonLoads(body) == IF body.t = "json" THEN [ok |-> TRUE, val |-> body.v]
                   ELSE [ok |-> FALSE, val |-> NoneV]

\* AwsSqsQueueClient._queue_url_for: ok is FALSE where it raises RuntimeError
QueueUrlFor(map, topic) ==
    IF topic \in DOMAIN map THEN [ok |-> TRUE, url |-> map[topic]]
    ELSE IF "default" \in DOMAIN map THEN [ok |-> TRUE, url |-> map["default"]]
    ELSE [ok |-> FALSE, url |-> ""]

\* AwsSqsQueueClient.publish_many: the loop over events; fail_at = i > 0 makes
\* the i-th send_message raise, fail_at = 0 none.
RECURSIVE SqsSendLoop(_, _, _, _, _, _)
SqsSendLoop(qs, url, topic, events, count, fail_at) ==
    IF events = <<>> THEN [queues |-> qs, ret |-> count, raised |-> FALSE]
    ELSE IF ~IsDict(Head(events))
    THEN SqsSendLoop(qs, url, topic, Tail(events), count, fail_at)
    ELSE IF fail_at = count + 1 THEN [queues |-> qs, ret |-> count, raised |-> TRUE]
    ELSE SqsSendLoop([qs EXCEPT ![url] =
                          Append(@, [Body |-> JsonDumps(Head(events)), via |-> topic])],
                     url, topic, Tail(events), count + 1, fail_at)

SqsSendTo(qs, u, topic, events, fail_at) ==
    IF ~u.ok THEN [queues |-> qs, ret |-> 0, raised |-> TRUE]
    ELSE SqsSendLoop(qs, u.url, topic, events, 0, fail_at)

SqsPublishMany(qs, map, topic, events, fail_at) ==
    SqsSendTo(qs, QueueUrlFor(map, topic), topic, events, fail_at)

\* the events AwsSqsQueueClient.consume_batch decodes from the received messages
Decoded(payload, via) ==
    IF payload.ok /\ IsDict(payload.val) THEN <<Entry(payload.val, via)>> ELSE <<>>

RECURSIVE SqsDecode(_)
SqsDecode(messages) ==
    IF messages = <<>> THEN <<>>
    ELSE Decoded(JsonLoads(Head(messages).Body), Head(messages).via)
         \o SqsDecode(Tail(messages))

\* "not body or not receipt_handle" is false: a message of the response has
\* a receipt handle unless it is marked as lacking one, and its Body is JSON
\* text, other text, or empty
HasBody(msg) == msg.Body.t # "empty"
HasReceiptHandle(msg) == "handle" \notin DOMAIN msg \/ msg.handle
Deletable(msg) == HasBody(msg) /\ HasReceiptHandle(msg)
Skipped(msg) == ~Deletable(msg)

\* the loop of consume_batch over the received messages: those that stay in
\* the queue, the events returned
SqsHandle(qs, url, received, rest) ==
    [queues |-> [qs EXCEPT ![url] = SelectSeq(received, Skipped) \o rest],
     ret |-> SqsDecode(SelectSeq(received, Deletable)), raised |-> FALSE,
     received |-> received]

\* consume_batch deleting only the messages whose body decoded to an object
SqsReceive_DeleteDecoded(qs, url, n) ==
    [queues |-> [qs EXCEPT ![url] =
                    SelectSeq(SubSeq(qs[url], 1, n),
                              LAMBDA m : Skipped(m) \/ SqsDecode(<<m>>) = <<>>)
                        \o SubSeq(qs[url], n + 1, Len(qs[url]))],
     ret |-> SqsDecode(SelectSeq(SubSeq(qs[url], 1, n), Deletable)), raised |-> FALSE,
     received |-> SubSeq(qs[url], 1, n)]

\* AwsSqsQueueClient.consume_batch.  The service answers receive_message with
\* the first k messages of the queue, k at most MaxNumberOfMessages, or with
\* an error (recv_ok = FALSE); every received message that has a body and a
\* receipt handle is deleted, decoded or not.
SqsReceive(qs, url, n) ==
    SqsHandle(qs, url, SubSeq(qs[url], 1, n), SubSeq(qs[url], n + 1, Len(qs[url])))

\* max(1, max_messages) in place of max(1, min(max_messages, 10))
ReceiveCount_NoCap(max_messages) == Max(1, max_messages)

\* MaxNumberOfMessages=max(1, min(max_messages, 10))
ReceiveCount(max_messages) == Max(1, Min(max_messages, SqsMaxBatch))

\* WaitTimeSeconds=max(0, min(wait_seconds, 20))
ReceiveWait(wait_seconds) == Max(0, Min(wait_seconds, SqsMaxWait))

\* the arguments of self._client.receive_message
ReceiveRequest(u, max_messages, wait_seconds) ==
    [QueueUrl |-> u.url, MaxNumberOfMessages |-> ReceiveCount(max_messages),
     WaitTimeSeconds |-> ReceiveWait(wait_seconds)]

SqsConsumeFrom(qs, u, MaxNumberOfMessages, k, recv_ok) ==
    IF ~u.ok \/ ~recv_ok
    THEN [queues |-> qs, ret |-> <<>>, raised |-> TRUE, received |-> <<>>]
    ELSE SqsReceive(qs, u.url, Min(Min(k, MaxNumberOfMessages), Len(qs[u.url])))

SqsConsumeBatch(qs, map, topic, max_messages, k, recv_ok) ==
    SqsConsumeFrom(qs, QueueUrlFor(map, topic), ReceiveCount(max_messages),
                   k, recv_ok)

\* GcpPubSubQueueClient._topic_id, with no QUEUE_GCP_TOPIC_PREFIX:
\* topic.replace(".", "-"), for the topic names of the worker
TopicId(topic) ==
    CASE topic = raw_topic -> "fitbit-notifications-raw"
      [] topic = retry_topic -> "fitbit-notifications-retry"
      [] topic = dlq_topic -> "fitbit-notifications-dlq"

\* GcpPubSubQueueClient._subscription_id, with QUEUE_GCP_SUBSCRIPTIONS unset:
\* f"{topic_id}-sub", for the topic names of the worker
SubscriptionId(topic) ==
    CASE TopicId(topic) = "fitbit-notifications-raw" -> "fitbit-notifications-raw-sub"
      [] TopicId(topic) = "fitbit-notifications-retry" -> "fitbit-notifications-retry-sub"
      [] TopicId(topic) = "fitbit-notifications-dlq" -> "fitbit-notifications-dlq-sub"

Subscriptions == {SubscriptionId(t) : t \in Topics}

\* A subscription of the Pub/Sub service: the messages ready for delivery and
\* the outstanding ones (delivered by a pull and not acknowledged yet).
EmptySubscription == [ready |-> <<>>, outstanding |-> <<>>]

\* GcpPubSubQueueClient.publish_many: the loop over events; fail_at = i > 0
\* makes the i-th publish(...).result() raise.  The service delivers a message
\* published on a topic to the subscription of that topic.
RECURSIVE GcpPublishLoop(_, _, _, _, _, _)
GcpPublishLoop(subs, sub, topic, events, count, fail_at) ==
    IF events = <<>> THEN [subs |-> subs, ret |-> count, raised |-> FALSE]
    ELSE IF ~IsDict(Head(events))
    THEN GcpPublishLoop(subs, sub, topic, Tail(events), count, fail_at)
    ELSE IF fail_at = count + 1 THEN [subs |-> subs, ret |-> count, raised |-> TRUE]
    ELSE GcpPublishLoop(
             [subs EXCEPT ![sub].ready =
                  Append(@, [Body |-> JsonDumps(Head(events)), via |-> topic])],
             sub, topic, Tail(events), count + 1, fail_at)

GcpPublishMany(subs, topic, events, fail_at) ==
    GcpPublishLoop(subs, SubscriptionId(topic), topic, events, 0, fail_at)

\* consume_batch collecting the ack_id of a message after its payload decoded
\* to an object: the other messages of the pull stay outstanding
GcpPulled_AckDecoded(subs, sub, n, ack_ok) ==
    [subs |-> [subs EXCEPT ![sub] =
                  [ready |-> SubSeq(@.ready, n + 1, Len(@.ready)),
                   outstanding |-> @.outstanding
                        \o SelectSeq(SubSeq(@.ready, 1, n),
                                     LAMBDA m : ~ack_ok \/ SqsDecode(<<m>>) = <<>>)]],
     ret |-> IF ack_ok THEN SqsDecode(SubSeq(subs[sub].ready, 1, n)) ELSE <<>>,
     raised |-> ~ack_ok,
     received |-> SubSeq(subs[sub].ready, 1, n),
     acks |-> IF SqsDecode(SubSeq(subs[sub].ready, 1, n)) = <<>> THEN <<>>
              ELSE <<SelectSeq(SubSeq(subs[sub].ready, 1, n),
                               LAMBDA m : SqsDecode(<<m>>) # <<>>)>>]

\* GcpPubSubQueueClient.consume_batch after pull returned the first n ready
\* messages: they are outstanding; every one is decoded, the dict payloads are
\* the events; acknowledge(ack_ids) is called when there is any message, and
\* the acknowledged messages leave the subscription.  ack_ok = FALSE:
\* acknowledge raises and the messages stay outstanding.
\* received: the messages of the pull; acks: the acknowledge calls made, each
\* with the messages whose ack_id it names.
GcpPulled(subs, sub, n, ack_ok) ==
    IF n > 0 /\ ~ack_ok
    THEN [subs |-> [subs EXCEPT ![sub] =
                       [ready |-> SubSeq(@.ready, n + 1, Len(@.ready)),
                        outstanding |-> @.outstanding \o SubSeq(@.ready, 1, n)]],
          ret |-> <<>>, raised |-> TRUE,
          received |-> SubSeq(subs[sub].ready, 1, n),
          acks |-> <<SubSeq(subs[sub].ready, 1, n)>>]
    ELSE [subs |-> [subs EXCEPT ![sub].ready = SubSeq(@, n + 1, Len(@))],
          ret |-> SqsDecode(SubSeq(subs[sub].ready, 1, n)), raised |-> FALSE,
          received |-> SubSeq(subs[sub].ready, 1, n),
          acks |-> IF n > 0 THEN <<SubSeq(subs[sub].ready, 1, n)>> ELSE <<>>]

\* GcpPubSubQueueClient.consume_batch.  The service answers pull with the
\* first k ready messages, k at most max_messages, or with an error such as
\* DeadlineExceeded (pull_ok = FALSE).
GcpConsumeFrom(subs, sub, max_messages, k, pull_ok, ack_ok) ==
    IF ~pull_ok
    THEN [subs |-> subs, ret |-> <<>>, raised |-> TRUE, received |-> <<>>, acks |-> <<>>]
    ELSE GcpPulled(subs, sub, Min(Min(k, max_messages), Len(subs[sub].ready)), ack_ok)

GcpConsumeBatch(subs, topic, max_messages, k, pull_ok, ack_ok) ==
    GcpConsumeFrom(subs, SubscriptionId(topic), max_messages, k, pull_ok, ack_ok)

\* self.queue.publish_many / consume_batch / size of the configured client
OfMemory(r) ==
    [topics |-> r.topics, queues |-> sqs_queues, subs |-> pubsub, ret |-> r.ret,
     raised |-> FALSE]
OfSqs(r) ==
    [topics |-> topics, queues |-> r.queues, subs |-> pubsub, ret |-> r.ret,
     raised |-> r.raised]
OfGcp(r) ==
    [topics |-> topics, queues |-> sqs_queues, subs |-> r.subs, ret |-> r.ret,
     raised |-> r.raised]

QueuePublishMany(topic, events, fail_at) ==
    IF backend = "memory"
    THEN OfMemory(MemPublishMany(topics, topic, events))
    ELSE IF backend = "aws_sqs"
    THEN OfSqs(SqsPublishMany(sqs_queues, queue_url_map, topic, events, fail_at))
    ELSE OfGcp(GcpPublishMany(pubsub, topic, events, fail_at))

\* recv_ok: the receive (SQS) or pull (Pub/Sub) succeeds; ack_ok: the
\* acknowledge (Pub/Sub) succeeds
QueueConsumeBatch(topic, max_messages, k, recv_ok, ack_ok) ==
    IF backend = "memory"
    THEN OfMemory(MemConsumeBatch(topics, topic, max_messages))
    ELSE IF backend = "aws_sqs"
    THEN OfSqs(SqsConsumeBatch(sqs_queues, queue_url_map, topic, max_messages, k,
                               recv_ok))
    ELSE OfGcp(GcpConsumeBatch(pubsub, topic, max_messages, k, recv_ok, ack_ok))

(***************************************************************************)
(* Inputs: the events and webhook bodies of the model, and the accepted    *)
(* queue-URL maps (QUEUE_AWS_SQS_TOPIC_URLS, or QUEUE_AWS_SQS_URL, which   *)
(* gives a map with only a "default" entry).                               *)
(***************************************************************************)
SubU1 == <<"u", "1", "-", "s", "u", "b">>
SubU2 == <<"u", "2", "-", "s", "u", "b">>
Date1 == <<"2", "0", "2", "6", "-", "0", "2", "-", "1", "0">>
Abc == <<"a", "b", "c">>

Notification(subscription_id, collection) ==
    [subscriptionId |-> StrV(subscription_id), collectionType |-> StrV(collection),
     date |-> StrV(Date1)]

WithRetryCount(fields, x) ==
    [k \in DOMAIN fields \cup {"retry_count"} |->
        IF k = "retry_count" THEN x ELSE fields[k]]

EvU1 == DictV(Notification(SubU1, Sleep))
EvU2 == DictV(Notification(SubU2, Sleep))
EvU2r2 == DictV(WithRetryCount(Notification(SubU2, Sleep), IntV(max_retries - 1)))
EvU2r3 == DictV(WithRetryCount(Notification(SubU2, Activities), IntV(max_retries)))
EvBadCount == DictV(WithRetryCount(Notification(SubU1, Body), StrV(Abc)))
EvNullCount == DictV(WithRetryCount(Notification(SubU1, Abc), NoneV))
NotAnObject == StrV(<<"n", "o">>)

Events == {EvU1, EvU2, EvU2r2, EvU2r3, EvBadCount, EvNullCount}

\* A webhook body: one object, an array, or another JSON value.
ListV(items) == [t |-> "list", v |-> items]
Bodies == {EvU1, EvU2r2, EvU2r3, EvBadCount, ListV(<<EvNullCount, NotAnObject>>)}

NoMap == [k \in {} |-> ""]
SqsMaps == {[k \in Topics |-> k],
            [k \in {"default"} |-> "queue.default"],
            [k \in {raw_topic, retry_topic} |-> k]}
Configs == {[backend |-> "memory", map |-> NoMap]}
           \cup {[backend |-> "aws_sqs", map |-> m] : m \in SqsMaps}

Range(f) == {f[x] : x \in DOMAIN f}

(***************************************************************************)
(* The worker (FitbitEventWorker) and the webhook ingestion                *)
(* (FitbitPushService) over the configured queue client.                   *)
(***************************************************************************)
NoCall == [op |-> "none"]
NoneReturned == [t \in {raw_topic, retry_topic} |-> 0]

Init ==
    /\ \E c \in Configs :
          /\ backend = c.backend
          /\ queue_url_map = c.map
          /\ sqs_queues = [u \in Range(c.map) |-> <<>>]
    /\ topics = [t \in Topics |-> <<>>]
    /\ pubsub = [s \in Subscriptions |-> EmptySubscription]
    /\ seen = {}
    /\ output_log = <<>>
    /\ pc = "drain_raw"
    /\ batch = <<>>
    /\ processed_raw = 0
    /\ processed_retry = 0
    /\ returned = NoneReturned
    /\ runs = <<>>
    /\ ningest = 0
    /\ last = NoCall
    /\ published = [t \in Topics |-> <<>>]
    /\ consumed = [t \in Topics |-> <<>>]
    /\ popped = [t \in Topics |-> <<>>]
    /\ ncalls = 0
    /\ lock = "free"
    /\ threads = [th \in Threads |-> Idle]

\* the size() of the configured client: the depth, or None where unknown
QueueSize(tp, qs, topic) ==
    IF backend = "memory" THEN IntV(MemSize(tp, topic))
    ELSE IF backend = "gcp_pubsub" THEN NoneV
    ELSE LET u == QueueUrlFor(queue_url_map, topic)
         IN  IF u.ok THEN IntV(Len(qs[u.url])) ELSE NoneV

\* FitbitPushService.ingest_notifications(body)
Notifications(body) ==
    IF body.t = "list" THEN SelectSeq(body.v, IsDict)
    ELSE IF IsDict(body) THEN <<body>>
    ELSE <<>>

\* ingest_notifications counting the items of body, objects or not
Published_CountsBody(body, r) ==
    /\ topics' = r.topics
    /\ sqs_queues' = r.queues
    /\ pubsub' = r.subs
    /\ last' = IF r.raised THEN [op |-> "ingest", raised |-> TRUE, body |-> body]
               ELSE [op |-> "ingest", raised |-> FALSE, body |-> body,
                     status |-> "received",
                     queued |-> IF body.t = "list" THEN Len(body.v) ELSE 1,
                     topic |-> raw_topic,
                     queue_depth |-> QueueSize(r.topics, r.queues, raw_topic)]

\* ingest_notifications after its publish_many call returned r (or raised)
Published(body, r) ==
    /\ topics' = r.topics
    /\ sqs_queues' = r.queues
    /\ pubsub' = r.subs
    /\ last' = IF r.raised THEN [op |-> "ingest", raised |-> TRUE, body |-> body]
               ELSE [op |-> "ingest", raised |-> FALSE, body |-> body,
                     status |-> "received", queued |-> r.ret, topic |-> raw_topic,
                     queue_depth |-> QueueSize(r.topics, r.queues, raw_topic)]

Ingest(body, fail_at) ==
    /\ ningest < MaxIngest
    /\ ningest' = ningest + 1
    /\ Published(body, QueuePublishMany(raw_topic, Notifications(body), fail_at))
    /\ UNCHANGED <<backend, queue_url_map, lock, threads, workerVars, clientHist>>

DrainTopic == IF pc \in {"drain_raw", "loop_raw"} THEN raw_topic ELSE retry_topic

\* _drain_topic without its try around consume_batch: the exception escapes
Consumed_NoTry(r) ==
    /\ topics' = r.topics
    /\ sqs_queues' = r.queues
    /\ pubsub' = r.subs
    /\ batch' = IF r.raised THEN <<>> ELSE r.ret
    /\ pc' = IF r.raised THEN "crashed"
             ELSE IF pc = "drain_raw" THEN "loop_raw" ELSE "loop_retry"
    /\ returned' = IF pc = "drain_raw"
                   THEN [NoneReturned EXCEPT ![raw_topic] = Len(batch')]
                   ELSE [returned EXCEPT ![retry_topic] = Len(batch')]
    /\ last' = [op |-> "drain", topic |-> DrainTopic, raised |-> r.raised]

\* _drain_topic after consume_batch returned r (or raised): an exception is
\* logged and the drain returns 0, which is the loop over an empty batch.
Consumed(r) ==
    /\ topics' = r.topics
    /\ sqs_queues' = r.queues
    /\ pubsub' = r.subs
    /\ batch' = IF r.raised THEN <<>> ELSE r.ret
    /\ pc' = IF pc = "drain_raw" THEN "loop_raw" ELSE "loop_retry"
    /\ returned' = IF pc = "drain_raw"
                   THEN [NoneReturned EXCEPT ![raw_topic] = Len(batch')]
                   ELSE [returned EXCEPT ![retry_topic] = Len(batch')]
    /\ last' = [op |-> "drain", topic |-> DrainTopic, raised |-> r.raised]

\* _drain_topic up to its loop: consume_batch, any exception giving "return 0"
Consume(k, recv_ok, ack_ok) ==
    /\ pc \in {"drain_raw", "drain_retry"}
    /\ Consumed(QueueConsumeBatch(DrainTopic, batch_size, k, recv_ok, ack_ok))
    /\ processed_raw' = IF pc = "drain_raw" THEN 0 ELSE processed_raw
    /\ processed_retry' = 0
    /\ UNCHANGED <<backend, queue_url_map, lock, threads, seen, output_log, runs, ningest, clientHist>>

\* One record of the history runs
Run(entry, r, handler, topic, copy, after) ==
    [via |-> entry.via, event |-> entry.obj, after |-> after, stage |-> r.stage,
     is_duplicate |-> r.is_duplicate, dedupe_key |-> r.dedupe_key,
     fetch_called |-> r.fetch_called, persist_called |-> r.persist_called,
     calls |-> r.calls, exc |-> r.exc, handler |-> handler, topic |-> topic, copy |-> copy]

\* _handle_failure after its publish_many call returned p (or raised)
Routed(entry, r, h, p) ==
    [seen |-> r.seen, log |-> r.log, topics |-> p.topics, queues |-> p.queues,
     subs |-> p.subs, escaped |-> p.raised,
     run |-> Run(entry, r, IF p.raised THEN "publish_raised" ELSE "published",
                 h.topic, h.updated, h.event)]

\* the except clause of the loop body: _handle_failure(event, exc)
Failed(entry, r, h, fail_at) ==
    IF h.raised
    THEN [seen |-> r.seen, log |-> r.log, topics |-> topics, queues |-> sqs_queues,
          subs |-> pubsub, escaped |-> TRUE, run |-> Run(entry, r, "raised", "", NoneV, entry.obj)]
    ELSE Routed(entry, r, h, QueuePublishMany(h.topic, <<h.updated>>, fail_at))

\* the loop body of _drain_topic after _process_event returned r (or raised)
Handled(entry, r, fail_at) ==
    IF ~r.raised
    THEN [seen |-> r.seen, log |-> r.log, topics |-> topics, queues |-> sqs_queues,
          subs |-> pubsub, escaped |-> FALSE, run |-> Run(entry, r, "none", "", NoneV, entry.obj)]
    ELSE Failed(entry, r, HandleFailure(entry.obj, r.exc), fail_at)

\* What the loop body of _drain_topic does with one dict event: the pipeline
\* run, and _handle_failure when it raised.
LoopBody(entry, provider_ok, io_ok, fail_at) ==
    Handled(entry, ProcessEvent(seen, output_log, entry.obj, provider_ok, io_ok),
            fail_at)

\* _drain_topic with "processed += 1" inside the try, after _process_event, and
\* only for an event that was not skipped as a duplicate
Looped_CountsDone(b) ==
    /\ seen' = b.seen
    /\ output_log' = b.log
    /\ topics' = b.topics
    /\ sqs_queues' = b.queues
    /\ pubsub' = b.subs
    /\ runs' = Append(runs, b.run)
    /\ pc' = IF b.escaped THEN "crashed" ELSE pc
    /\ processed_raw' = IF b.run.stage = "done" /\ pc = "loop_raw"
                        THEN processed_raw + 1 ELSE processed_raw
    /\ processed_retry' = IF b.run.stage = "done" /\ pc = "loop_retry"
                          THEN processed_retry + 1 ELSE processed_retry
    /\ UNCHANGED returned

\* The state after the loop body left b.  An exception that escapes the loop
\* body escapes _drain_topic and run_forever: the worker is gone.
Looped(b) ==
    /\ seen' = b.seen
    /\ output_log' = b.log
    /\ topics' = b.topics
    /\ sqs_queues' = b.queues
    /\ pubsub' = b.subs
    /\ runs' = Append(runs, b.run)
    /\ pc' = IF b.escaped THEN "crashed" ELSE pc
    /\ processed_raw' = IF ~b.escaped /\ pc = "loop_raw"
                        THEN processed_raw + 1 ELSE processed_raw
    /\ processed_retry' = IF ~b.escaped /\ pc = "loop_retry"
                          THEN processed_retry + 1 ELSE processed_retry
    /\ UNCHANGED returned

\* One iteration of the loop of _drain_topic.
Process(provider_ok, io_ok, fail_at) ==
    /\ pc \in {"loop_raw", "loop_retry"}
    /\ batch # <<>>
    /\ batch' = Tail(batch)
    /\ IF ~IsDict(Head(batch).obj)
       THEN UNCHANGED <<topics, sqs_queues, pubsub, seen, output_log, runs, pc,
                        processed_raw, processed_retry, returned>>
       ELSE Looped(LoopBody(Head(batch), provider_ok, io_ok, fail_at))
    /\ last' = NoCall
    /\ UNCHANGED <<backend, queue_url_map, lock, threads, ningest, clientHist>>

\* run_forever testing processed_retry alone before time.sleep
EndDrain_RetryOnly ==
    /\ pc \in {"loop_raw", "loop_retry"}
    /\ batch = <<>>
    /\ pc' = IF pc = "loop_raw" THEN "drain_retry"
             ELSE IF processed_retry = 0 THEN "sleep"
             ELSE "drain_raw"
    /\ UNCHANGED <<backend, queue_url_map, lock, threads, topics, sqs_queues, pubsub,
                   seen, output_log, batch, processed_raw, processed_retry, returned,
                   runs, ningest, clientHist>>
    /\ last' = IF last.op = "drain" THEN last ELSE NoCall

\* _drain_topic returns processed; run_forever goes on to the retry drain, to
\* the next cycle, or to time.sleep.
EndDrain ==
    /\ pc \in {"loop_raw", "loop_retry"}
    /\ batch = <<>>
    /\ pc' = IF pc = "loop_raw" THEN "drain_retry"
             ELSE IF processed_raw = 0 /\ processed_retry = 0 THEN "sleep"
             ELSE "drain_raw"
    /\ UNCHANGED <<backend, queue_url_map, lock, threads, topics, sqs_queues, pubsub, seen,
                   output_log, batch,
                   processed_raw, processed_retry, returned, runs, ningest, clientHist>>
    /\ last' = IF last.op = "drain" THEN last ELSE NoCall

\* time.sleep(self.poll_seconds) returns
SleepDone ==
    /\ pc = "sleep"
    /\ pc' = "drain_raw"
    /\ UNCHANGED <<backend, queue_url_map, lock, threads, topics, sqs_queues, pubsub, seen,
                   output_log, batch,
                   processed_raw, processed_retry, returned, runs, ningest, clientHist>>
    /\ last' = NoCall

WorkerStep ==
    \/ \E k \in 0..batch_size, recv_ok \in BOOLEAN, ack_ok \in BOOLEAN :
          Consume(k, recv_ok, ack_ok)
    \/ \E provider_ok \in BOOLEAN, io_ok \in BOOLEAN, fail_at \in 0..1 :
          Process(provider_ok, io_ok, fail_at)
    \/ EndDrain
    \/ SleepDone

Next ==
    \/ \E body \in Bodies, fail_at \in 0..1 : Ingest(body, fail_at)
    \/ WorkerStep

Spec == Init /\ [][Next]_vars

(***************************************************************************)
(* The worker over the pull-based transport (GcpPubSubQueueClient), with   *)
(* the process being killed and started again, and the service making the  *)
(* outstanding messages of a subscription ready again when their           *)
(* acknowledgement deadline passes.                                        *)
(***************************************************************************)
PullBodies == {EvU1, ListV(<<NotAnObject, EvU2r2>>)}

PullInit ==
    /\ backend = "gcp_pubsub"
    /\ queue_url_map = NoMap
    /\ sqs_queues = [u \in {} |-> <<>>]
    /\ topics = [t \in Topics |-> <<>>]
    /\ pubsub = [s \in Subscriptions |-> EmptySubscription]
    /\ seen = {}
    /\ output_log = <<>>
    /\ pc = "drain_raw"
    /\ batch = <<>>
    /\ processed_raw = 0
    /\ processed_retry = 0
    /\ returned = NoneReturned
    /\ runs = <<>>
    /\ ningest = 0
    /\ last = NoCall
    /\ published = [t \in Topics |-> <<>>]
    /\ consumed = [t \in Topics |-> <<>>]
    /\ popped = [t \in Topics |-> <<>>]
    /\ ncalls = 0
    /\ lock = "free"
    /\ threads = [th \in Threads |-> Idle]

\* The worker process dies between a dequeue and the end of the loop over
\* the dequeued events.  batch is kept as the record of the events that were
\* dequeued and not yet handled when it died.
Kill ==
    /\ pc \in {"loop_raw", "loop_retry"}
    /\ batch # <<>>
    /\ pc' = "down"
    /\ last' = NoCall
    /\ UNCHANGED <<backend, queue_url_map, lock, threads, topics, sqs_queues, pubsub, seen,
                   output_log,
                   batch, processed_raw, processed_retry, returned, runs, ningest, clientHist>>

\* run_worker in a new process: a new FitbitEventWorker (an empty seen-set)
\* over the same service and the same output file.
Restart ==
    /\ pc = "down"
    /\ pc' = "drain_raw"
    /\ seen' = {}
    /\ batch' = <<>>
    /\ processed_raw' = 0
    /\ processed_retry' = 0
    /\ returned' = NoneReturned
    /\ last' = NoCall
    /\ UNCHANGED <<backend, queue_url_map, lock, threads, topics, sqs_queues, pubsub, output_log, runs,
                   ningest, clientHist>>

\* The acknowledgement deadline of the outstanding messages of subscription
\* sub passes: the service will deliver them again.
Expire(sub) ==
    /\ pubsub[sub].outstanding # <<>>
    /\ pubsub' = [pubsub EXCEPT ![sub] =
                      [ready |-> @.ready \o @.outstanding, outstanding |-> <<>>]]
    /\ last' = NoCall
    /\ UNCHANGED <<backend, queue_url_map, lock, threads, topics, sqs_queues, workerVars, ningest,
                   clientHist>>

PullNext ==
    \/ \E body \in PullBodies, fail_at \in 0..1 : Ingest(body, fail_at)
    \/ WorkerStep
    \/ Kill
    \/ Restart
    \/ \E sub \in Subscriptions : Expire(sub)

PullSpec == PullInit /\ [][PullNext]_vars

(***************************************************************************)
(* The webhook ingestion over each transport, with bodies that are one     *)
(* object, arrays with and without objects, and a JSON value that is       *)
(* neither, while the worker drains.                                       *)
(***************************************************************************)
IngestBodies == {EvU1, NotAnObject, ListV(<<>>), ListV(<<NotAnObject>>),
                 ListV(<<EvNullCount, NotAnObject, EvU2>>)}

IngestInit == Init \/ PullInit

IngestNext ==
    \/ \E body \in IngestBodies, fail_at \in 0..1 : Ingest(body, fail_at)
    \/ WorkerStep

IngestSpec == IngestInit /\ [][IngestNext]_vars

(***************************************************************************)
(* The verification handshake and the webhook endpoint                     *)
(* (FitbitPushService.is_valid_verification_code, main.fitbit_webhook).    *)
(* FITBIT_SUBSCRIPTION_VERIFY_CODE is read at every call.  A setting of    *)
(* the model pairs its text (raw) with the set of codes it configures      *)
(* (codes), which no definition of the program reads.                      *)
(***************************************************************************)
\* s.split(sep) for a one-character sep
RECURSIVE SplitRest(_, _, _)
SplitRest(s, sep, item) ==
    IF s = <<>> THEN <<item>>
    ELSE IF Head(s) = sep THEN <<item>> \o SplitRest(Tail(s), sep, <<>>)
    ELSE SplitRest(Tail(s), sep, Append(item, Head(s)))

Split(s, sep) == SplitRest(s, sep, <<>>)

\* the set comprehension without its strip() of the items
VerifyCodes_NoStrip(items) == {items[i] : i \in {k \in 1..Len(items) : Strip(items[k]) # <<>>}}

\* {item.strip() for item in items if item.strip()}
VerifyCodes(items) ==
    {Strip(items[i]) : i \in {k \in 1..Len(items) : Strip(items[k]) # <<>>}}

\* FitbitPushService.is_valid_verification_code, given the text of
\* FITBIT_SUBSCRIPTION_VERIFY_CODE (default "")
IsValidVerificationCode(verify_codes_raw, code) ==
    PyTruthy(code) /\ code.v \in VerifyCodes(Split(verify_codes_raw, ","))

InvalidVerificationCode == StrV(<<"I", "n", "v", "a", "l", "i", "d", " ", "v", "e", "r", "i", "f", "i", "c", "a", "t", "i", "o", "n", " ", "c", "o", "d", "e">>)

\* main.fitbit_webhook, request.method == "GET": code is the query parameter
\* "verify", None when the request carries none
WebhookGet(verify_code, code) ==
    IF PyTruthy(code) /\ code.v = verify_code
    THEN [status_code |-> 204, content |-> code]
    ELSE [status_code |-> 404, content |-> InvalidVerificationCode]

\* main.fitbit_webhook, request.method == "POST", for a body that is JSON
WebhookPost(body) ==
    [status_code |-> 200, content |-> DictV([status |-> StrV(<<"r", "e", "c", "e", "i", "v", "e", "d">>)])]

Xyz == <<"x", "y", "z">>
Qqq == <<"q", "q", "q">>

Settings ==
    {[raw |-> <<>>, codes |-> {}],
     [raw |-> Abc, codes |-> {Abc}],
     [raw |-> Xyz, codes |-> {Xyz}],
     [raw |-> Abc \o <<",">> \o Xyz, codes |-> {Abc, Xyz}],
     [raw |-> Xyz \o <<",">> \o Abc, codes |-> {Abc, Xyz}],
     [raw |-> <<" ">> \o Abc \o <<" ", ",", " ">> \o Xyz, codes |-> {Abc, Xyz}],
     [raw |-> Abc \o <<",", ",">> \o Xyz \o <<",">>, codes |-> {Abc, Xyz}],
     [raw |-> <<",", " ">>, codes |-> {}],
     [raw |-> Abc \o <<",">> \o Qqq \o <<",">> \o Xyz, codes |-> {Abc, Qqq, Xyz}]}

Codes ==
    {NoneV, StrV(<<>>), StrV(Abc), StrV(Xyz), StrV(Qqq), StrV(<<"a", "b">>),
     StrV(Abc \o <<",">> \o Xyz), StrV(<<" ">> \o Abc), StrV(<<",">>), StrV(<<" ">>)}

WebhookBodies == {EvU1, ListV(<<EvU1, EvU2>>), ListV(<<>>)}

\* a call that touches neither the queue client nor the worker
Answered ==
    UNCHANGED <<backend, queue_url_map, lock, threads, topics, sqs_queues, pubsub, workerVars, ningest,
                clientHist>>

VerifyCode(setting, code) ==
    /\ last' = [op |-> "is_valid_verification_code", setting |-> setting, code |-> code,
                ret |-> IsValidVerificationCode(setting.raw, code)]
    /\ Answered

GetRequest(setting, code) ==
    /\ last' = [op |-> "webhook_get", setting |-> setting, code |-> code,
                response |-> WebhookGet(setting.raw, code)]
    /\ Answered

PostRequest(body) ==
    /\ last' = [op |-> "webhook_post", body |-> body, response |-> WebhookPost(body)]
    /\ Answered

WebhookNext ==
    \/ \E setting \in Settings, code \in Codes : VerifyCode(setting, code)
    \/ \E setting \in Settings, code \in Codes : GetRequest(setting, code)
    \/ \E body \in WebhookBodies : PostRequest(body)

WebhookInit == Init /\ backend = "memory"

WebhookSpec == WebhookInit /\ [][WebhookNext]_vars

(***************************************************************************)
(* Queue client construction (create_queue_client_from_env).  An           *)
(* environment gives QUEUE_BACKEND and QUEUE_FALLBACK_TO_MEMORY after      *)
(* strip().lower(), the settings of the transports, and whether the        *)
(* transport's package imports and its client constructs.                  *)
(***************************************************************************)
UrlMap == DictV([k \in Topics |-> StrV(<<"q">>)])

\* QUEUE_AWS_SQS_TOPIC_URLS: unset (default "{}"), empty, the JSON text of a
\* map, of an empty map, of an empty and of a non-empty array, and a text
\* that is not JSON
TopicUrlsTexts ==
    {[t |-> "unset"], [t |-> "empty"], JsonDumps(UrlMap), JsonDumps(DictV(NoMap)),
     JsonDumps(ListV(<<>>)), JsonDumps(ListV(<<StrV(<<"q">>)>>)), [t |-> "text"]}

Environments ==
    [QUEUE_BACKEND : {"memory", "kafka", "gcp_pubsub", "aws_sqs", "rabbitmq"},
     QUEUE_FALLBACK_TO_MEMORY : {"true", "false"},
     QUEUE_GCP_PROJECT_ID : BOOLEAN,
     QUEUE_AWS_SQS_TOPIC_URLS : TopicUrlsTexts,
     QUEUE_AWS_SQS_URL : BOOLEAN,
     package : BOOLEAN,
     constructs : BOOLEAN]

\* KafkaQueueClient.__init__, GcpPubSubQueueClient.__init__ and
\* AwsSqsQueueClient.__init__: the client, or the exception of the import or
\* of the construction of the library's client
Construct(kind, env, map) ==
    IF env.package /\ env.constructs
    THEN [raised |-> FALSE, client |-> kind, map |-> map]
    ELSE [raised |-> TRUE, client |-> "none", map |-> NoneV]

\* json.loads(queue_urls_raw) if queue_urls_raw else {}
TopicUrls(text) ==
    IF text.t = "unset" \/ text.t = "empty" THEN [ok |-> TRUE, val |-> DictV(NoMap)]
    ELSE JsonLoads(text)

SingleUrlMap == DictV([k \in {"default"} |-> StrV(<<"q">>)])

\* the aws_sqs branch after json.loads returned url_map (queue_url_map)
SqsFromMap(env, url_map) ==
    IF (~IsDict(url_map) \/ ~PyTruthy(url_map)) /\ env.QUEUE_AWS_SQS_URL
    THEN Construct("aws_sqs", env, SingleUrlMap)
    ELSE IF ~PyTruthy(url_map)
    THEN [raised |-> TRUE, client |-> "none", map |-> NoneV]
    ELSE Construct("aws_sqs", env, url_map)

\* the aws_sqs branch: json.loads may raise
SqsFromEnv(env, loaded) ==
    IF ~loaded.ok THEN [raised |-> TRUE, client |-> "none", map |-> NoneV]
    ELSE SqsFromMap(env, loaded.val)

\* the try block of create_queue_client_from_env
TryCreate(env) ==
    CASE env.QUEUE_BACKEND = "memory" ->
             [raised |-> FALSE, client |-> "memory", map |-> NoneV]
      [] env.QUEUE_BACKEND = "kafka" -> Construct("kafka", env, NoneV)
      [] env.QUEUE_BACKEND = "gcp_pubsub" ->
             IF ~env.QUEUE_GCP_PROJECT_ID
             THEN [raised |-> TRUE, client |-> "none", map |-> NoneV]
             ELSE Construct("gcp_pubsub", env, NoneV)
      [] env.QUEUE_BACKEND = "aws_sqs" ->
             SqsFromEnv(env, TopicUrls(env.QUEUE_AWS_SQS_TOPIC_URLS))
      [] OTHER -> [raised |-> TRUE, client |-> "none", map |-> NoneV]

\* the except clause of create_queue_client_from_env
Fallback(env, logger, r) ==
    IF ~r.raised THEN [raised |-> FALSE, client |-> r.client, map |-> r.map, warnings |-> 0]
    ELSE IF env.QUEUE_FALLBACK_TO_MEMORY = "true"
    THEN [raised |-> FALSE, client |-> "memory", map |-> NoneV,
          warnings |-> IF logger THEN 2 ELSE 0]
    ELSE [raised |-> TRUE, client |-> "none", map |-> NoneV,
          warnings |-> IF logger THEN 1 ELSE 0]

\* create_queue_client_from_env(logger)
CreateQueueClientFromEnv(env, logger) == Fallback(env, logger, TryCreate(env))

Create(env, logger) ==
    /\ last' = [op |-> "create", env |-> env, logger |-> logger,
                ret |-> CreateQueueClientFromEnv(env, logger)]
    /\ Answered

FactoryNext == \E env \in Environments, logger \in BOOLEAN : Create(env, logger)

FactorySpec == WebhookInit /\ [][FactoryNext]_vars

(***************************************************************************)
(* The persist stage called directly (PersistStage.run), with contexts     *)
(* that went through no dedupe stage.                                      *)
(***************************************************************************)
\* contexts as the fetch stage leaves them: the event, its dedupe key, details
PersistContexts ==
    {[event |-> e, dedupe_key |-> DedupeKey(e), details |-> d] :
         e \in {EvU1, EvU2, EvNullCount},
         d \in {NoneV, FetchDetailsRun([event |-> EvU1], TRUE).details}}

Persisted(context, r) ==
    /\ output_log' = r.log
    /\ last' = [op |-> "persist", context |-> context, raised |-> r.raised]

PersistCall(context, io_ok) ==
    /\ Len(output_log) < MaxLog
    /\ Persisted(context, PersistRun(output_log, context, context.details, io_ok))
    /\ UNCHANGED <<backend, queue_url_map, lock, threads, topics, sqs_queues, pubsub, seen, pc, batch,
                   processed_raw, processed_retry, returned, runs, ningest, clientHist>>

PersistNext == \E context \in PersistContexts, io_ok \in BOOLEAN : PersistCall(context, io_ok)

PersistSpec == WebhookInit /\ [][PersistNext]_vars

(***************************************************************************)
(* The in-memory queue client called directly, by producers and one        *)
(* consumer: publish, publish_many, size, pop_all and consume_batch.       *)
(***************************************************************************)
QObjects == {EvU1, EvU2, NotAnObject}
QLists == {<<>>, <<EvU1, NotAnObject, EvU2>>, <<NotAnObject>>, <<EvU2, EvU2>>}
QTopics == {raw_topic, retry_topic}
QMaxMessages == {-1, 0, 1, 2, 50}

Objs(entries) == [i \in 1..Len(entries) |-> entries[i].obj]

QInit == Init /\ backend = "memory"

Called == /\ ncalls < MaxOps
          /\ ncalls' = ncalls + 1
          /\ UNCHANGED <<backend, queue_url_map, lock, threads, sqs_queues, pubsub, workerVars, ningest>>

QPublish(topic, event) ==
    /\ Called
    /\ topics' = MemPublish(topics, topic, event)
    /\ last' = [op |-> "publish", topic |-> topic, arg |-> event]
    /\ published' = [published EXCEPT ![topic] = Append(@, event)]
    /\ UNCHANGED <<consumed, popped>>

QPublishManyDone(topic, events, r) ==
    /\ topics' = r.topics
    /\ last' = [op |-> "publish_many", topic |-> topic, arg |-> events, ret |-> r.ret]

QPublishMany(topic, events) ==
    /\ Called
    /\ QPublishManyDone(topic, events, MemPublishMany(topics, topic, events))
    /\ published' = [published EXCEPT ![topic] = @ \o SelectSeq(events, IsDict)]
    /\ UNCHANGED <<consumed, popped>>

QSize(topic) ==
    /\ Called
    /\ last' = [op |-> "size", topic |-> topic, ret |-> MemSize(topics, topic)]
    /\ UNCHANGED <<topics, published, consumed, popped>>

QPopAllDone(topic, r) ==
    /\ topics' = r.topics
    /\ last' = [op |-> "pop_all", topic |-> topic, ret |-> Objs(r.ret)]
    /\ popped' = [popped EXCEPT ![topic] = @ \o Objs(r.ret)]

QPopAll(topic) ==
    /\ Called
    /\ QPopAllDone(topic, MemPopAll(topics, topic))
    /\ UNCHANGED <<published, consumed>>

QConsumeDone(topic, max_messages, r) ==
    /\ topics' = r.topics
    /\ last' = [op |-> "consume_batch", topic |-> topic, max_messages |-> max_messages,
                ret |-> Objs(r.ret)]
    /\ consumed' = [consumed EXCEPT ![topic] = @ \o Objs(r.ret)]

QConsumeBatch(topic, max_messages) ==
    /\ Called
    /\ QConsumeDone(topic, max_messages, MemConsumeBatch(topics, topic, max_messages))
    /\ UNCHANGED <<published, popped>>

QNext ==
    \/ \E topic \in QTopics, event \in QObjects : QPublish(topic, event)
    \/ \E topic \in QTopics, events \in QLists : QPublishMany(topic, events)
    \/ \E topic \in QTopics : QSize(topic)
    \/ \E topic \in QTopics : QPopAll(topic)
    \/ \E topic \in QTopics, max_messages \in QMaxMessages :
          QConsumeBatch(topic, max_messages)

QueueSpec == QInit /\ [][QNext]_vars

(***************************************************************************)
(* Threads on one in-memory client: two producers calling publish and      *)
(* publish_many and one consumer calling consume_batch.  Each method body  *)
(* is inside "with self._lock": a thread that called waits until the lock  *)
(* is free, holds it for the body and frees it on return.                  *)
(***************************************************************************)
ThreadEvents == {EvU1, EvU2}
ThreadLists == {<<EvU1, NotAnObject, EvU2>>, <<EvU2>>}

ThreadCalls(th) ==
    IF th \in Producers
    THEN {[op |-> "publish", topic |-> raw_topic, arg |-> e] : e \in ThreadEvents}
         \cup {[op |-> "publish_many", topic |-> raw_topic, arg |-> l] : l \in ThreadLists}
    ELSE {[op |-> "consume_batch", topic |-> raw_topic, arg |-> m] : m \in {1, 2}}

ThreadFrame ==
    UNCHANGED <<backend, queue_url_map, sqs_queues, pubsub, workerVars, ningest, popped>>

\* a thread calls a method of the client
Invoke(th, call) ==
    /\ threads[th].pc = "idle"
    /\ ncalls < MaxOps
    /\ ncalls' = ncalls + 1
    /\ threads' = [threads EXCEPT ![th] = [pc |-> "wait", call |-> call]]
    /\ last' = NoCall
    /\ UNCHANGED <<lock, topics, published, consumed>>
    /\ ThreadFrame

\* with self._lock: the thread acquires the lock
Enter(th) ==
    /\ threads[th].pc = "wait"
    /\ lock = "free"
    /\ lock' = th
    /\ threads' = [threads EXCEPT ![th].pc = "in"]
    /\ last' = NoCall
    /\ UNCHANGED <<topics, published, consumed, ncalls>>
    /\ ThreadFrame

\* the body of publish_many or consume_batch gave r
Left(th, call, r, sent, received) ==
    /\ topics' = r.topics
    /\ published' = [published EXCEPT ![call.topic] = @ \o sent]
    /\ consumed' = [consumed EXCEPT ![call.topic] = @ \o received]
    /\ last' = [op |-> call.op, thread |-> th, topic |-> call.topic, ret |-> r.ret]

\* the body of the method runs and the lock is released
MethodBody(th, call) ==
    CASE call.op = "publish" ->
             Left(th, call, [topics |-> MemPublish(topics, call.topic, call.arg),
                             ret |-> NoneV], <<call.arg>>, <<>>)
      [] call.op = "publish_many" ->
             Left(th, call, MemPublishMany(topics, call.topic, call.arg),
                  SelectSeq(call.arg, IsDict), <<>>)
      [] call.op = "consume_batch" ->
             Left(th, call, MemConsumeBatch(topics, call.topic, call.arg), <<>>,
                  Objs(MemConsumeBatch(topics, call.topic, call.arg).ret))

Leave(th) ==
    /\ threads[th].pc = "in"
    /\ lock = th
    /\ MethodBody(th, threads[th].call)
    /\ lock' = "free"
    /\ threads' = [threads EXCEPT ![th] = Idle]
    /\ UNCHANGED ncalls
    /\ ThreadFrame

ThreadNext ==
    \/ \E th \in Threads : \E call \in ThreadCalls(th) : Invoke(th, call)
    \/ \E th \in Threads : Enter(th)
    \/ \E th \in Threads : Leave(th)

ThreadSpec == QInit /\ [][ThreadNext]_vars

(***************************************************************************)
(* Drain runs: the worker with the batch size (WORKER_BATCH_SIZE, any      *)
(* integer text) drawn anew for each drain, over topics fed by the         *)
(* ingestion service.                                                      *)
(***************************************************************************)
DrainSizes == {0, 1, 2, 3}
DrainBodies == {EvU1, ListV(<<EvNullCount, NotAnObject, EvU2>>)}

\* the messages waiting in the queue that holds the topic
Waiting(tp, qs, topic) ==
    IF backend = "memory" THEN tp[topic]
    ELSE IF QueueUrlFor(queue_url_map, topic).ok
    THEN qs[QueueUrlFor(queue_url_map, topic).url]
    ELSE <<>>

\* _drain_topic up to its loop, after consume_batch(topic, max_messages=bs)
\* returned r (or raised)
Drained(bs, r) ==
    /\ topics' = r.topics
    /\ sqs_queues' = r.queues
    /\ pubsub' = r.subs
    /\ batch' = IF r.raised THEN <<>> ELSE r.ret
    /\ pc' = IF pc = "drain_raw" THEN "loop_raw" ELSE "loop_retry"
    /\ returned' = IF pc = "drain_raw"
                   THEN [NoneReturned EXCEPT ![raw_topic] = Len(batch')]
                   ELSE [returned EXCEPT ![retry_topic] = Len(batch')]
    /\ last' = [op |-> "drain_topic", topic |-> DrainTopic, batch_size |-> bs,
                before |-> Waiting(topics, sqs_queues, DrainTopic),
                raised |-> r.raised]

DrainBatch(bs, k) ==
    /\ pc \in {"drain_raw", "drain_retry"}
    /\ Drained(bs, QueueConsumeBatch(DrainTopic, bs, k, TRUE, TRUE))
    /\ processed_raw' = IF pc = "drain_raw" THEN 0 ELSE processed_raw
    /\ processed_retry' = 0
    /\ UNCHANGED <<backend, queue_url_map, lock, threads, seen, output_log, runs, ningest,
                   clientHist>>

DrainNext ==
    \/ \E body \in DrainBodies : Ingest(body, 0)
    \/ \E bs \in DrainSizes, k \in 0..3 : DrainBatch(bs, k)
    \/ \E provider_ok \in BOOLEAN : Process(provider_ok, TRUE, 0)
    \/ EndDrain
    \/ SleepDone

DrainSpec == Init /\ [][DrainNext]_vars

(***************************************************************************)
(* Pipeline runs: the worker on the in-memory transport, from the point    *)
(* where its drain of the raw topic returned one event, for events whose   *)
(* subscriptionId, collectionType and date are absent or any of the values *)
(* below.                                                                  *)
(***************************************************************************)
Absent == [t |-> "absent"]
SubscriptionIds ==
    {Absent, NoneV, IntV(-5), EmptyStr, StrV(<<" ">>), StrV(SubU1), StrV(SubU2),
     StrV(<<"u", "1">>), StrV(<<" ">> \o SubU1 \o <<" ">>), StrV(<<"-", "s", "u", "b">>),
     StrV(<<"u", "1", "-", "s", "-", "x">>)}
CollectionTypes ==
    {Absent, NoneV, EmptyStr, StrV(Sleep), StrV(<<"S", "L", "E", "E", "P">>),
     StrV(<<"B", "o", "d", "y">>), StrV(Activities), StrV(Abc)}
Dates == {Absent, StrV(Date1)}

\* the event with the given fields, an absent one left out
EventOf(sub, coll, day) ==
    DictV([k \in {f \in {"subscriptionId", "collectionType", "date"} :
                     CASE f = "subscriptionId" -> sub # Absent
                       [] f = "collectionType" -> coll # Absent
                       [] f = "date" -> day # Absent} |->
              CASE k = "subscriptionId" -> sub
                [] k = "collectionType" -> coll
                [] k = "date" -> day])

PipelineInit ==
    /\ backend = "memory"
    /\ queue_url_map = NoMap
    /\ sqs_queues = [u \in {} |-> <<>>]
    /\ topics = [t \in Topics |-> <<>>]
    /\ pubsub = [s \in Subscriptions |-> EmptySubscription]
    /\ seen = {}
    /\ output_log = <<>>
    /\ pc = "loop_raw"
    /\ \E sub \in SubscriptionIds, coll \in CollectionTypes, day \in Dates :
          batch = <<Entry(EventOf(sub, coll, day), raw_topic)>>
    /\ processed_raw = 0
    /\ processed_retry = 0
    /\ returned = [NoneReturned EXCEPT ![raw_topic] = 1]
    /\ runs = <<>>
    /\ ningest = 0
    /\ last = NoCall
    /\ published = [t \in Topics |-> <<>>]
    /\ consumed = [t \in Topics |-> <<>>]
    /\ popped = [t \in Topics |-> <<>>]
    /\ ncalls = 0
    /\ lock = "free"
    /\ threads = [th \in Threads |-> Idle]

PipelineSpec == PipelineInit /\ [][WorkerStep]_vars

(***************************************************************************)
(* Dedupe runs: the worker on the in-memory transport, from the point      *)
(* where its drain of the raw topic returned two events, whose ownerId and *)
(* subscriptionId are absent, empty or hold the separator of the key.      *)
(***************************************************************************)
OwnerIds == {Absent, EmptyStr, StrV(<<"a">>), StrV(<<"a", "|">>)}
OwnedSubscriptionIds == {Absent, EmptyStr, StrV(<<"|">>), StrV(SubU1)}

\* a sleep notification with the given ownerId and subscriptionId, an absent
\* one left out
OwnedEvent(owner, sub) ==
    DictV([k \in {f \in {"ownerId", "subscriptionId", "collectionType", "date"} :
                     CASE f = "ownerId" -> owner # Absent
                       [] f = "subscriptionId" -> sub # Absent
                       [] OTHER -> TRUE} |->
              CASE k = "ownerId" -> owner
                [] k = "subscriptionId" -> sub
                [] k = "collectionType" -> StrV(Sleep)
                [] k = "date" -> StrV(Date1)])

OwnedEvents == {OwnedEvent(owner, sub) : owner \in OwnerIds, sub \in OwnedSubscriptionIds}

DedupeInit ==
    /\ backend = "memory"
    /\ queue_url_map = NoMap
    /\ sqs_queues = [u \in {} |-> <<>>]
    /\ topics = [t \in Topics |-> <<>>]
    /\ pubsub = [s \in Subscriptions |-> EmptySubscription]
    /\ seen = {}
    /\ output_log = <<>>
    /\ pc = "loop_raw"
    /\ \E e1 \in OwnedEvents, e2 \in OwnedEvents :
          batch = <<Entry(e1, raw_topic), Entry(e2, raw_topic)>>
    /\ processed_raw = 0
    /\ processed_retry = 0
    /\ returned = [NoneReturned EXCEPT ![raw_topic] = 2]
    /\ runs = <<>>
    /\ ningest = 0
    /\ last = NoCall
    /\ published = [t \in Topics |-> <<>>]
    /\ consumed = [t \in Topics |-> <<>>]
    /\ popped = [t \in Topics |-> <<>>]
    /\ ncalls = 0
    /\ lock = "free"
    /\ threads = [th \in Threads |-> Idle]

DedupeSpec == DedupeInit /\ [][WorkerStep]_vars

(***************************************************************************)
(* Receive runs: consume_batch of the SQS client on the raw topic, whose   *)
(* queue holds a backlog, for any max_messages and wait_seconds; k is the  *)
(* number of messages the backend has ready within the wait.               *)
(***************************************************************************)
ReceiveMaxMessages == {-5, 0, 1, 2, 10, 11, 50}
ReceiveWaitSeconds == {-1, 0, 2, 20, 21, 100}
ReceiveReady == {0, 1, 10, Backlog}

ReceiveInit ==
    /\ \E m \in SqsMaps :
          /\ backend = "aws_sqs"
          /\ queue_url_map = m
          /\ sqs_queues = [u \in Range(m) |->
                              IF u = QueueUrlFor(m, raw_topic).url
                              THEN [i \in 1..Backlog |->
                                        [Body |-> JsonDumps(EvU1), via |-> raw_topic]]
                              ELSE <<>>]
    /\ topics = [t \in Topics |-> <<>>]
    /\ pubsub = [s \in Subscriptions |-> EmptySubscription]
    /\ seen = {}
    /\ output_log = <<>>
    /\ pc = "drain_raw"
    /\ batch = <<>>
    /\ processed_raw = 0
    /\ processed_retry = 0
    /\ returned = NoneReturned
    /\ runs = <<>>
    /\ ningest = 0
    /\ last = NoCall
    /\ published = [t \in Topics |-> <<>>]
    /\ consumed = [t \in Topics |-> <<>>]
    /\ popped = [t \in Topics |-> <<>>]
    /\ ncalls = 0
    /\ lock = "free"
    /\ threads = [th \in Threads |-> Idle]

Received(request, max_messages, wait_seconds, r) ==
    /\ sqs_queues' = r.queues
    /\ last' = [op |-> "receive_message", request |-> request,
                max_messages |-> max_messages, wait_seconds |-> wait_seconds,
                ret |-> r.ret, received |-> r.received,
                before |-> sqs_queues[request.QueueUrl]]

\* AwsSqsQueueClient.consume_batch(raw_topic, max_messages, wait_seconds)
Receive(max_messages, wait_seconds, k) ==
    /\ ncalls < MaxOps
    /\ ncalls' = ncalls + 1
    /\ Received(ReceiveRequest(QueueUrlFor(queue_url_map, raw_topic), max_messages,
                               wait_seconds),
                max_messages, wait_seconds,
                SqsConsumeBatch(sqs_queues, queue_url_map, raw_topic, max_messages, k,
                                TRUE))
    /\ UNCHANGED <<backend, queue_url_map, lock, threads, topics, pubsub, workerVars,
                   ningest, published, consumed, popped>>

ReceiveNext ==
    \E max_messages \in ReceiveMaxMessages, wait_seconds \in ReceiveWaitSeconds,
       k \in ReceiveReady : Receive(max_messages, wait_seconds, k)

ReceiveSpec == ReceiveInit /\ [][ReceiveNext]_vars

(***************************************************************************)
(* Count runs: the worker on the in-memory transport, whose raw topic      *)
(* holds entries of any kind: notifications, one of them with its retries  *)
(* used up, and an entry that is no object (put there by publish).         *)
(***************************************************************************)
RawDepth == 3     \* entries waiting in the raw topic (count runs)
RawEntries == {Entry(EvU1, raw_topic), Entry(EvU2r3, raw_topic),
               Entry(NotAnObject, raw_topic)}

CountInit ==
    /\ backend = "memory"
    /\ queue_url_map = NoMap
    /\ sqs_queues = [u \in {} |-> <<>>]
    /\ \E q \in [1..RawDepth -> RawEntries] :
          topics = [t \in Topics |-> IF t = raw_topic THEN q ELSE <<>>]
    /\ pubsub = [s \in Subscriptions |-> EmptySubscription]
    /\ seen = {}
    /\ output_log = <<>>
    /\ pc = "drain_raw"
    /\ batch = <<>>
    /\ processed_raw = 0
    /\ processed_retry = 0
    /\ returned = NoneReturned
    /\ runs = <<>>
    /\ ningest = 0
    /\ last = NoCall
    /\ published = [t \in Topics |-> <<>>]
    /\ consumed = [t \in Topics |-> <<>>]
    /\ popped = [t \in Topics |-> <<>>]
    /\ ncalls = 0
    /\ lock = "free"
    /\ threads = [th \in Threads |-> Idle]

CountSpec == CountInit /\ [][WorkerStep]_vars

(***************************************************************************)
(* Acknowledge runs: consume_batch of the Pub/Sub client on the raw topic, *)
(* whose subscription holds three messages of any kind: an object, JSON    *)
(* that is no object, data that is no JSON.                                *)
(***************************************************************************)
ReadyDepth == 3     \* messages ready in the raw subscription (acknowledge runs)
PubsubMessages ==
    {[Body |-> JsonDumps(EvU1), via |-> raw_topic],
     [Body |-> JsonDumps(NotAnObject), via |-> raw_topic],
     [Body |-> [t |-> "text", v |-> <<"{">>], via |-> raw_topic]}

AckInit ==
    /\ backend = "gcp_pubsub"
    /\ queue_url_map = NoMap
    /\ sqs_queues = [u \in {} |-> <<>>]
    /\ topics = [t \in Topics |-> <<>>]
    /\ \E q \in [1..ReadyDepth -> PubsubMessages] :
          pubsub = [s \in Subscriptions |->
                       IF s = SubscriptionId(raw_topic)
                       THEN [ready |-> q, outstanding |-> <<>>]
                       ELSE EmptySubscription]
    /\ seen = {}
    /\ output_log = <<>>
    /\ pc = "drain_raw"
    /\ batch = <<>>
    /\ processed_raw = 0
    /\ processed_retry = 0
    /\ returned = NoneReturned
    /\ runs = <<>>
    /\ ningest = 0
    /\ last = NoCall
    /\ published = [t \in Topics |-> <<>>]
    /\ consumed = [t \in Topics |-> <<>>]
    /\ popped = [t \in Topics |-> <<>>]
    /\ ncalls = 0
    /\ lock = "free"
    /\ threads = [th \in Threads |-> Idle]

\* consume_batch of the Pub/Sub client returned r (or raised)
Pulled(topic, r) ==
    /\ pubsub' = r.subs
    /\ last' = [op |-> "pull", subscription |-> SubscriptionId(topic),
                before |-> pubsub[SubscriptionId(topic)], received |-> r.received,
                acks |-> r.acks, ret |-> r.ret, raised |-> r.raised]

\* GcpPubSubQueueClient.consume_batch(raw_topic, max_messages)
Pull(max_messages, k, pull_ok, ack_ok) ==
    /\ ncalls < MaxOps
    /\ ncalls' = ncalls + 1
    /\ Pulled(raw_topic, GcpConsumeBatch(pubsub, raw_topic, max_messages, k, pull_ok, ack_ok))
    /\ UNCHANGED <<backend, queue_url_map, lock, threads, topics, sqs_queues, workerVars,
                   ningest, published, consumed, popped>>

AckNext ==
    \/ \E max_messages \in 1..ReadyDepth, k \in 0..ReadyDepth, pull_ok \in BOOLEAN,
          ack_ok \in BOOLEAN : Pull(max_messages, k, pull_ok, ack_ok)
    \/ \E sub \in Subscriptions : Expire(sub)

AckSpec == AckInit /\ [][AckNext]_vars

(***************************************************************************)
(* Delete runs: consume_batch of the SQS client on a raw queue that holds  *)
(* three messages of any kind: an object, JSON that is no object, text     *)
(* that is no JSON, an empty body, and an object in a message for which    *)
(* the response carries no receipt handle.                                 *)
(***************************************************************************)
QueueDepth == 3     \* messages in the raw queue (delete runs)
Messages ==
    {[Body |-> JsonDumps(EvU1), via |-> raw_topic],
     [Body |-> JsonDumps(NotAnObject), via |-> raw_topic],
     [Body |-> [t |-> "text", v |-> <<"{">>], via |-> raw_topic],
     [Body |-> [t |-> "empty"], via |-> raw_topic],
     [Body |-> JsonDumps(EvU2), via |-> raw_topic, handle |-> FALSE]}

DeleteInit ==
    /\ backend = "aws_sqs"
    /\ queue_url_map = [k \in {"default"} |-> "queue.default"]
    /\ \E q \in [1..QueueDepth -> Messages] :
          sqs_queues = [u \in {"queue.default"} |-> q]
    /\ topics = [t \in Topics |-> <<>>]
    /\ pubsub = [s \in Subscriptions |-> EmptySubscription]
    /\ seen = {}
    /\ output_log = <<>>
    /\ pc = "drain_raw"
    /\ batch = <<>>
    /\ processed_raw = 0
    /\ processed_retry = 0
    /\ returned = NoneReturned
    /\ runs = <<>>
    /\ ningest = 0
    /\ last = NoCall
    /\ published = [t \in Topics |-> <<>>]
    /\ consumed = [t \in Topics |-> <<>>]
    /\ popped = [t \in Topics |-> <<>>]
    /\ ncalls = 0
    /\ lock = "free"
    /\ threads = [th \in Threads |-> Idle]

DeleteNext ==
    \E max_messages \in {1, 2, 10}, k \in 0..QueueDepth : Receive(max_messages, 2, k)

DeleteSpec == DeleteInit /\ [][DeleteNext]_vars

(***************************************************************************)
(* Properties.                                                             *)
(***************************************************************************)
IdentityFields == {"ownerId", "subscriptionId", "collectionType", "date"}

\* two events with identical (ownerId, subscriptionId, collectionType, date)
SameIdentity(e1, e2) ==
    \A f \in IdentityFields :
        /\ Has(e1, f) = Has(e2, f)
        /\ Has(e1, f) => e1.v[f] = e2.v[f]

\* the retry_count of an event that carries none, null or an integer
CountOf(event) ==
    IF ~Has(event, "retry_count") \/ event.v["retry_count"] = NoneV THEN 0
    ELSE event.v["retry_count"].v

StageFailed(run) == run.stage \in {"fetch_details", "persist"}
Crashed == pc = "crashed"

\* C1: on the in-memory transport, when the worker goes to sleep with the raw
\* and the retry topic empty (both drains of the cycle returned nothing), every
\* event whose Fetch Details failed for lack of credentials has a copy in the
\* dead-letter topic: none was dropped on its way through the retry topic.
C1_FailingEventReachesDlq ==
    (/\ backend = "memory"
     /\ pc = "sleep"
     /\ topics[raw_topic] = <<>>
     /\ topics[retry_topic] = <<>>)
    => \A i \in 1..Len(runs) :
           (/\ runs[i].stage = "fetch_details"
            /\ InferUserId(runs[i].event) \notin StoredTokens)
           => \E k \in 1..Len(topics[dlq_topic]) :
                  SameIdentity(topics[dlq_topic][k].obj, runs[i].event)

\* C2: on the in-memory transport, every event the worker republished to the
\* retry topic and drained again went through Fetch Details.
C2_RetryRunsFullPipeline ==
    backend = "memory" =>
        \A i \in 1..Len(runs) : runs[i].via = retry_topic => runs[i].fetch_called

\* C3: of two runs on events with identical identity fields the second is a
\* duplicate, and a duplicate calls neither Fetch Details nor Persist; a run
\* whose key no earlier run had is not a duplicate.
C3_SecondIsDuplicate ==
    \A i \in 1..Len(runs) :
        runs[i].stage # "parse" =>
            /\ (\E j \in 1..(i - 1) : /\ runs[j].stage # "parse"
                                      /\ SameIdentity(runs[j].event, runs[i].event))
                   => runs[i].is_duplicate
            /\ (\A j \in 1..(i - 1) : runs[j].dedupe_key # runs[i].dedupe_key)
                   => ~runs[i].is_duplicate
            /\ runs[i].is_duplicate
                   => ~runs[i].fetch_called /\ ~runs[i].persist_called

C3_Witness ==
    \E i, j \in 1..Len(runs) :
        /\ i < j
        /\ runs[i].via = raw_topic /\ runs[j].via = raw_topic
        /\ SameIdentity(runs[i].event, runs[j].event)
        /\ ~runs[i].is_duplicate /\ runs[i].persist_called
        /\ runs[j].is_duplicate

\* the queue the configured client keeps a topic's messages in, as objects
Queued(tp, qs, topic) ==
    IF backend = "memory" THEN Objs(tp[topic])
    ELSE IF backend = "gcp_pubsub" THEN <<>>
    ELSE [i \in 1..Len(qs[QueueUrlFor(queue_url_map, topic).url]) |->
             qs[QueueUrlFor(queue_url_map, topic).url][i].Body.v]

\* C4: a run whose Fetch Details or Persist failed, on an event with
\* retry_count r, publishes a copy with retry_count r + 1 to the retry topic
\* when r < max_retries and to the dead-letter topic otherwise; when the
\* publish succeeds the copy is the new last message of that topic's queue.
C4_Routed(run) ==
    LET r == CountOf(run.event)
        target == IF r < max_retries THEN retry_topic ELSE dlq_topic
    IN  /\ run.handler \in {"published", "publish_raised"}
        /\ run.topic = target
        /\ run.copy.v["retry_count"] = IntV(r + 1)
        /\ run.handler = "published" =>
               Queued(topics', sqs_queues', target)
                   = Append(Queued(topics, sqs_queues, target), run.copy)

C7_OneRecordPerKey ==
    \A i, j \in 1..Len(output_log) :
        i # j => output_log[i].dedupe_key # output_log[j].dedupe_key

C7_Witness ==
    /\ Len(output_log) >= 1
    /\ \E i \in 1..Len(runs) :
          /\ runs[i].is_duplicate
          /\ \E j \in 1..Len(output_log) : output_log[j].dedupe_key = runs[i].dedupe_key

\* C8: no drain returns, and no pipeline run handles, an event that was
\* published to the dead-letter topic.
C8_DlqIsTerminal ==
    /\ \A i \in 1..Len(batch) : batch[i].via # dlq_topic
    /\ \A i \in 1..Len(runs) : runs[i].via # dlq_topic

\* C9: a failure of Fetch Details or Persist never escapes the loop of
\* _drain_topic: the worker is never gone because of one.
C9_StageFailureNeverEscapes ==
    Crashed => ~StageFailed(runs[Len(runs)])

\* C10: the parse stage raises for no event that is a mapping.
C10_ParseNeverRaises ==
    \A i \in 1..Len(runs) : runs[i].stage # "parse"

\* a step that is a call of operation op on the in-memory client
Call(op) == ncalls' = ncalls + 1 /\ last'.op = op

\* C5: on the in-memory transport with one consumer (no pop_all on the
\* topic), the events consume_batch has returned followed by the events still
\* queued are the events published, in publication order; and a consume_batch
\* with max_messages >= 1 on a topic that holds events returns at least one.
C5_Fifo ==
    \A t \in Topics :
        popped[t] = <<>> => consumed[t] \o Objs(topics[t]) = published[t]

C5_Progress ==
    (Call("consume_batch") /\ last'.max_messages >= 1 /\ topics[last'.topic] # <<>>)
        => /\ last'.ret # <<>>
           /\ Len(topics'[last'.topic]) < Len(topics[last'.topic])

C5_ExactlyOnceInOrder == []C5_Fifo /\ [][C5_Progress]_vars

C5_Witness ==
    \E t \in Topics :
        /\ popped[t] = <<>>
        /\ Len(consumed[t]) >= 2
        /\ consumed[t][1] # consumed[t][2]
        /\ topics[t] # <<>>

\* C6: publish_many(topic, events) appends to the topic exactly the dict items
\* of events, in their order, returns their number and leaves the other
\* topics alone; a consume_batch for at least the depth of the topic, or a
\* pop_all, then returns exactly what the topic held and empties it.
C6_PublishMany ==
    Call("publish_many") =>
        /\ last'.ret = Len(SelectSeq(last'.arg, IsDict))
        /\ Objs(topics'[last'.topic])
               = Objs(topics[last'.topic]) \o SelectSeq(last'.arg, IsDict)
        /\ \A t \in Topics \ {last'.topic} : topics'[t] = topics[t]

C6_FullDrain ==
    (\/ Call("consume_batch") /\ last'.max_messages >= Len(topics[last'.topic])
     \/ Call("pop_all"))
        => /\ last'.ret = Objs(topics[last'.topic])
           /\ topics'[last'.topic] = <<>>

C6_PublishManyEnqueuesObjects == [][C6_PublishMany /\ C6_FullDrain]_vars

C6_Witness ==
    /\ last.op = "consume_batch"
    /\ last.ret = <<EvU1, EvU2>>
    /\ published[last.topic] = <<EvU1, EvU2>>
    /\ topics[last.topic] = <<>>

\* the runs of the history whose _handle_failure built a copy to republish
Republished(run) == run.handler \in {"published", "publish_raised"}

\* C11: every copy the worker republishes, to the retry or to the dead-letter
\* topic, carries an integer retry_count exactly one greater than that of the
\* event it was derived from, and keeps its identity fields; so every message
\* the worker put under the retry or the dead-letter topic has a retry_count
\* of at least one.
C11_RetryCountIncrements ==
    /\ \A i \in 1..Len(runs) :
          Republished(runs[i]) =>
              /\ runs[i].copy.v["retry_count"] = IntV(CountOf(runs[i].event) + 1)
              /\ runs[i].copy.v["retry_count"].v > CountOf(runs[i].event)
              /\ SameIdentity(runs[i].copy, runs[i].event)
    /\ \A t \in {retry_topic, dlq_topic} :
          \A k \in 1..Len(topics[t]) : CountOf(topics[t][k].obj) >= 1

C11_Witness ==
    \E i, j \in 1..Len(runs) :
        /\ Republished(runs[i]) /\ Republished(runs[j])
        /\ ~Has(runs[i].event, "retry_count")
        /\ runs[i].copy.v["retry_count"] = IntV(1)
        /\ CountOf(runs[j].event) = max_retries - 1
        /\ runs[j].copy.v["retry_count"] = IntV(max_retries)

\* the last worker step was a drain whose consume_batch raised
DrainRaised == last.op = "drain" /\ last.raised

\* C12: a drain whose consume_batch raises runs the pipeline on nothing and
\* returns 0 (no event handled, nothing persisted, the seen-set as it was),
\* and run_forever goes on with the retry drain, the next cycle or the sleep:
\* the worker is not gone.
C12_DrainReturnsZero ==
    (pc \in {"drain_raw", "drain_retry"} /\ DrainRaised') =>
        /\ batch' = <<>>
        /\ runs' = runs /\ output_log' = output_log /\ seen' = seen
        /\ pc' = (IF pc = "drain_raw" THEN "loop_raw" ELSE "loop_retry")
        /\ (IF pc = "drain_raw" THEN processed_raw' ELSE processed_retry') = 0

C12_LoopContinues ==
    (DrainRaised /\ pc \in {"loop_raw", "loop_retry"} /\ pc' # pc) =>
        /\ pc' = (IF pc = "loop_raw" THEN "drain_retry"
                  ELSE IF processed_raw = 0 THEN "sleep" ELSE "drain_raw")
        /\ runs' = runs

C12_ConsumeFaultIsEmptyBatch == [][C12_DrainReturnsZero /\ C12_LoopContinues]_vars

C12_Witness ==
    /\ DrainRaised
    /\ last.topic = raw_topic
    /\ pc = "drain_retry"
    /\ backend = "aws_sqs"
    /\ sqs_queues[QueueUrlFor(queue_url_map, raw_topic).url] # <<>>

\* the messages subscription sub of the service still holds for event entry
Held(sub, entry) ==
    {i \in 1..Len(sub.ready) : sub.ready[i].Body.v = entry.obj}
    \cup {i \in 1..Len(sub.outstanding) : sub.outstanding[i].Body.v = entry.obj}

Unacked(sub, entry) ==
    \E i \in 1..Len(sub.outstanding) : sub.outstanding[i].Body.v = entry.obj

\* C13: on the pull-based transport, an event consume_batch returned and the
\* loop has not handled yet is still outstanding (unacknowledged) in its
\* subscription; and when the worker process dies, every such event is still
\* held by the service, which will deliver it again.
C13_DequeuedIsUnacknowledged ==
    backend = "gcp_pubsub" =>
        /\ pc \in {"loop_raw", "loop_retry"} =>
               \A i \in 1..Len(batch) :
                   Unacked(pubsub[SubscriptionId(batch[i].via)], batch[i])
        /\ pc = "down" =>
               \A i \in 1..Len(batch) :
                   Held(pubsub[SubscriptionId(batch[i].via)], batch[i]) # {}

\* C14: every element of a list consume_batch returns is an object (a dict),
\* whatever publish and publish_many calls came before: in the list returned
\* to a direct caller, and in the batch the worker's drain received.
C14_ConsumeReturnsObjects ==
    /\ last.op = "consume_batch" => \A i \in 1..Len(last.ret) : IsDict(last.ret[i])
    /\ \A i \in 1..Len(batch) : IsDict(batch[i].obj)

\* the well-formed objects of a webhook body
ObjectsOf(body) ==
    IF IsDict(body) THEN <<body>>
    ELSE IF body.t = "list"
    THEN [i \in 1..Cardinality({k \in 1..Len(body.v) : IsDict(body.v[k])}) |->
             body.v[CHOOSE k \in 1..Len(body.v) :
                        /\ IsDict(body.v[k])
                        /\ Cardinality({j \in 1..k : IsDict(body.v[j])}) = i]]
    ELSE <<>>

\* the messages subscription sub holds ready for delivery, as objects
ReadyOf(sub) == [i \in 1..Len(sub.ready) |-> sub.ready[i].Body.v]

\* the raw topic's messages in the configured transport, as objects
RawQueued(tp, qs, subs) ==
    IF backend = "gcp_pubsub" THEN ReadyOf(subs[SubscriptionId(raw_topic)])
    ELSE Queued(tp, qs, raw_topic)

\* a step that is an ingest_notifications call that returned
Ingested == ningest' = ningest + 1 /\ ~last'.raised

\* C15: an ingest_notifications(body) call that returns has appended to the
\* raw topic exactly the objects of body, in order (the body itself, the
\* object items of an array, nothing otherwise), and returns status
\* "received", queued = their number, the raw topic's name, and queue_depth =
\* the depth of the raw topic after the publish where the transport reports
\* one (always on the in-memory transport) and None on the pull-based one.
C15_Ingest ==
    Ingested =>
        /\ RawQueued(topics', sqs_queues', pubsub')
               = RawQueued(topics, sqs_queues, pubsub) \o ObjectsOf(last'.body)
        /\ last'.status = "received"
        /\ last'.queued = Len(ObjectsOf(last'.body))
        /\ last'.topic = raw_topic
        /\ backend = "memory" =>
               last'.queue_depth = IntV(Len(topics[raw_topic]) + last'.queued)
        /\ backend = "aws_sqs" =>
               last'.queue_depth = IntV(Len(RawQueued(topics', sqs_queues', pubsub')))
        /\ backend = "gcp_pubsub" => last'.queue_depth = NoneV

C15_IngestPublishesObjects == [][C15_Ingest]_vars

C15_Witness ==
    /\ backend = "memory"
    /\ last.op = "ingest"
    /\ last.body = ListV(<<EvNullCount, NotAnObject, EvU2>>)
    /\ last.queued = 2
    /\ last.queue_depth = IntV(3)
    /\ Objs(topics[raw_topic]) = <<EvU1, EvNullCount, EvU2>>

\* C16: is_valid_verification_code(code) is true exactly when code is a
\* non-empty string and one of the codes the setting configures.
C16_ValidIffConfigured ==
    last.op = "is_valid_verification_code" =>
        (last.ret <=> (/\ last.code # NoneV
                       /\ last.code.v # <<>>
                       /\ last.code.v \in last.setting.codes))

C16_Witness ==
    /\ last.op = "is_valid_verification_code"
    /\ last.setting.codes = {Abc, Xyz}
    /\ last.setting.raw # Abc \o <<",">> \o Xyz
    /\ last.code = StrV(Xyz)
    /\ last.ret

\* C17: a verification request gets the success response (204) exactly when
\* its code is one of the configured codes, and the not-found response (404)
\* otherwise.
C17_HandshakeMatchesConfiguredSet ==
    last.op = "webhook_get" =>
        /\ last.response.status_code \in {204, 404}
        /\ last.response.status_code = 204
               <=> (/\ last.code # NoneV
                    /\ last.code.v # <<>>
                    /\ last.code.v \in last.setting.codes)

\* C18: a notification delivered to the webhook is acknowledged with status,
\* queued, topic and queue_depth, and its objects are on the raw topic.
C18_NotificationIsEnqueued ==
    last.op = "webhook_post" =>
        /\ {"status", "queued", "topic", "queue_depth"} \subseteq DOMAIN last.response.content.v
        /\ ObjectsOf(last.body) # <<>> => topics[raw_topic] # <<>>

\* the settings of the aws_sqs transport give a queue URL
HasQueueUrl(env) ==
    \/ env.QUEUE_AWS_SQS_URL
    \/ env.QUEUE_AWS_SQS_TOPIC_URLS = JsonDumps(UrlMap)

\* the configured transport is unsupported, or its dependencies or settings
\* are unavailable
Unavailable(env) ==
    CASE env.QUEUE_BACKEND = "memory" -> FALSE
      [] env.QUEUE_BACKEND = "kafka" -> ~env.package \/ ~env.constructs
      [] env.QUEUE_BACKEND = "gcp_pubsub" ->
             ~env.package \/ ~env.constructs \/ ~env.QUEUE_GCP_PROJECT_ID
      [] env.QUEUE_BACKEND = "aws_sqs" ->
             ~env.package \/ ~env.constructs \/ ~HasQueueUrl(env)
      [] OTHER -> TRUE

\* C19: construction returns an in-memory client for a configured memory
\* transport; for an unsupported or unavailable transport it returns an
\* in-memory client (after warning, given a logger) when fallback is enabled
\* and raises, returning no client, when it is disabled.
C19_ConstructionPolicy ==
    last.op = "create" =>
        /\ last.env.QUEUE_BACKEND = "memory" =>
               ~last.ret.raised /\ last.ret.client = "memory"
        /\ (Unavailable(last.env) /\ last.env.QUEUE_FALLBACK_TO_MEMORY = "true") =>
               /\ ~last.ret.raised /\ last.ret.client = "memory"
               /\ last.logger => last.ret.warnings > 0
        /\ (Unavailable(last.env) /\ last.env.QUEUE_FALLBACK_TO_MEMORY # "true") =>
               last.ret.raised /\ last.ret.client = "none"

\* C20: a Persist run that returns appends exactly one record, that of its
\* context, after the records the log held, which stay as they were; a run
\* that raises leaves the log as it was.  A context whose dedupe key the log
\* already holds is appended like any other.
C20_Appends ==
    last'.op = "persist" =>
        IF last'.raised THEN output_log' = output_log
        ELSE /\ Len(output_log') = Len(output_log) + 1
             /\ SubSeq(output_log', 1, Len(output_log)) = output_log
             /\ output_log'[Len(output_log')].dedupe_key = last'.context.dedupe_key
             /\ output_log'[Len(output_log')].event = last'.context.event
             /\ output_log'[Len(output_log')].details = last'.context.details

C20_PersistIsAppendOnly == [][C20_Appends]_vars

C20_Witness ==
    /\ last.op = "persist" /\ ~last.raised
    /\ Len(output_log) = 3
    /\ output_log[1].dedupe_key = output_log[3].dedupe_key
    /\ output_log[1].dedupe_key # output_log[2].dedupe_key

\* the text of an identity field of an event, empty when the field is missing
FieldText(event, f) == IF Has(event, f) THEN event.v[f].v ELSE <<>>

\* "fitbit", ownerId, subscriptionId, collectionType and date joined by "|"
KeyOf(event) ==
    <<"f", "i", "t", "b", "i", "t", "|">> \o FieldText(event, "ownerId")
        \o <<"|">> \o FieldText(event, "subscriptionId")
        \o <<"|">> \o FieldText(event, "collectionType")
        \o <<"|">> \o FieldText(event, "date")

\* the records of the output log with dedupe key key
RecordsOf(key) == {k \in 1..Len(output_log) : output_log[k].dedupe_key = key}

\* a run on an unseen event whose Fetch Details and Persist succeeded left
\* exactly one record, that of its event under its key, and published nothing
Processed(run) ==
    /\ run.dedupe_key = KeyOf(run.event)
    /\ Cardinality(RecordsOf(run.dedupe_key)) = 1
    /\ \A k \in RecordsOf(run.dedupe_key) : output_log[k].event = run.event
    /\ run.handler = "none"

Occurrences(q, e) == Cardinality({i \in 1..Len(q) : q[i] = e})

\* C22: with producers and one consumer calling the in-memory client from
\* their own threads, every event occurs among the events consume_batch has
\* returned and the events still queued together exactly as many times as it
\* was published: none is lost, none is returned twice; and at most one thread
\* is inside a method body.
C22_NoLossNoDuplicate ==
    /\ \A t \in Topics :
          \A e \in ThreadEvents \cup {NotAnObject} :
              Occurrences(consumed[t], e) + Occurrences(Objs(topics[t]), e)
                  = Occurrences(published[t], e)
    /\ Cardinality({th \in Threads : threads[th].pc = "in"}) <= 1
    /\ \A th \in Threads : threads[th].pc = "in" <=> lock = th

C22_Witness ==
    /\ lock = "producer2"
    /\ threads["producer1"].pc = "wait"
    /\ consumed[raw_topic] # <<>>
    /\ topics[raw_topic] # <<>>

\* C23: whatever max_messages and wait_seconds consume_batch of the SQS client
\* is called with, its receive request asks for at least 1 and at most 10
\* messages and for a wait time of 0 to 20 seconds, and it returns at most 10
\* events.
C23_ReceiveRequestInRange ==
    last.op = "receive_message" =>
        /\ last.request.MaxNumberOfMessages >= 1
        /\ last.request.MaxNumberOfMessages <= SqsMaxBatch
        /\ last.request.WaitTimeSeconds >= 0
        /\ last.request.WaitTimeSeconds <= SqsMaxWait
        /\ Len(last.ret) <= last.request.MaxNumberOfMessages

C23_Witness ==
    /\ last.op = "receive_message"
    /\ last.max_messages = 50
    /\ last.wait_seconds = -1
    /\ last.request.MaxNumberOfMessages = 10
    /\ last.request.WaitTimeSeconds = 0
    /\ Len(last.ret) = 10

\* the drain of the retry topic ends and the worker goes on
CycleEnds == pc = "loop_retry" /\ pc' \in {"sleep", "drain_raw"}

\* C24: a cycle of the worker drains the raw topic, then the retry topic; the
\* events of a batch are handled one at a time, each pipeline run (and its
\* failure handling) being over before the next event is taken; and at the end
\* of the cycle the worker sleeps when both drains returned no message and
\* starts the next cycle at once when either returned one.
C24_CycleOrder ==
    [][/\ pc' = "loop_raw" => pc \in {"drain_raw", "loop_raw"}
       /\ pc' = "drain_retry" => pc \in {"loop_raw", "drain_retry"}
       /\ pc' = "loop_retry" => pc \in {"drain_retry", "loop_retry"}
       /\ pc' = "sleep" => pc \in {"loop_retry", "sleep"}
       /\ pc' = "drain_raw" => pc \in {"loop_retry", "sleep", "drain_raw"}
       /\ (pc \in {"drain_raw", "drain_retry"} /\ pc' # pc) =>
              /\ batch = <<>>
              /\ returned'[DrainTopic] = Len(batch')
              /\ runs' = runs
       /\ runs' # runs =>
              /\ pc \in {"loop_raw", "loop_retry"}
              /\ batch # <<>> /\ batch' = Tail(batch)
              /\ Len(runs') = Len(runs) + 1
              /\ runs'[Len(runs')].event = Head(batch).obj
       /\ CycleEnds =>
              /\ batch = <<>>
              /\ pc' = "sleep" <=> (returned[raw_topic] = 0 /\ returned[retry_topic] = 0)
      ]_vars

C24_Witness ==
    /\ pc = "sleep"
    /\ runs # <<>>
    /\ returned[raw_topic] = 0 /\ returned[retry_topic] = 0

\* the drain just made took the first n waiting messages and left the others
Took(n) ==
    /\ n <= Len(last.before)
    /\ Len(batch) = n
    /\ \A i \in 1..n : batch[i] = last.before[i]
    /\ topics[last.topic] = SubSeq(last.before, n + 1, Len(last.before))

\* the messages the drain just made removed from the queue of its topic
Removed == Len(last.before) - Len(Waiting(topics, sqs_queues, last.topic))

\* C25 as stated: for every batchSize, a drain removes and hands to the loop at
\* most batchSize messages
C25_AtMostBatchSizeAsStated ==
    last.op = "drain_topic" =>
        /\ Removed <= last.batch_size
        /\ Len(batch) <= last.batch_size
        /\ backend = "memory" => Took(Min(last.batch_size, Len(last.before)))

\* C25, amended: a drain with batchSize >= 1 removes from the queue and hands to
\* the loop at most batchSize messages (on the receive-and-delete transport a
\* drain asks for at least one message, so with batchSize below 1 it can take
\* one); on the in-memory transport a drain with batchSize >= 0 takes exactly
\* the first min(batchSize, depth) messages of the topic and leaves the others
\* queued in their order.
C25_AtMostBatchSize ==
    last.op = "drain_topic" =>
        /\ Removed <= Max(1, last.batch_size)
        /\ Len(batch) <= Max(1, last.batch_size)
        /\ last.batch_size >= 1 => Removed <= last.batch_size
        /\ backend = "memory" => Took(Min(last.batch_size, Len(last.before)))

C25_Witness ==
    /\ last.op = "drain_topic"
    /\ backend = "memory"
    /\ last.batch_size = 2
    /\ Len(last.before) = 4
    /\ Len(batch) = 2
    /\ Len(topics[raw_topic]) = 2

\* the step handles one more event, and run is its record
Handles(run) == Len(runs') = Len(runs) + 1 /\ run = runs'[Len(runs')]

\* C26: handling an event whose dedupe key is already in the seen-set appends
\* nothing to the output log, publishes nothing on any transport, leaves the
\* seen-set as it was, calls neither Fetch Details nor Persist nor the failure
\* handler, and raises nothing: the worker goes on with its batch.
C26_DuplicateFrame ==
    [][\A key \in seen :
          (Len(runs') = Len(runs) + 1 /\ runs'[Len(runs')].dedupe_key = key) =>
              /\ Handles(runs'[Len(runs')])
              /\ runs'[Len(runs')].is_duplicate
              /\ runs'[Len(runs')].handler = "none"
              /\ ~runs'[Len(runs')].fetch_called
              /\ ~runs'[Len(runs')].persist_called
              /\ output_log' = output_log
              /\ seen' = seen
              /\ topics' = topics /\ sqs_queues' = sqs_queues /\ pubsub' = pubsub
              /\ pc' = pc
      ]_vars

C26_Witness ==
    /\ runs # <<>>
    /\ runs[Len(runs)].is_duplicate
    /\ runs[Len(runs)].dedupe_key \in seen
    /\ Cardinality(seen) = 1
    /\ Len(output_log) = 1
    /\ pc \in {"loop_raw", "loop_retry"}

\* the run failed in Fetch Details for lack of stored credentials
NoCredentials(run) ==
    /\ run.stage = "fetch_details"
    /\ ~GetTokens(InferUserId(run.event))

\* C27: a run that finds no stored credentials for the resolved user raises
\* before any provider call and without persisting, and exactly one copy of
\* its event, with retry_count one greater and last_error set, is published to
\* the retry topic or to the dead-letter topic.
C27_NoCredentialsEscalates ==
    \A i \in 1..Len(runs) :
        NoCredentials(runs[i]) =>
            /\ runs[i].exc = NoTokensError(InferUserId(runs[i].event))
            /\ runs[i].calls = <<>>
            /\ ~runs[i].persist_called
            /\ runs[i].handler = "published"
            /\ runs[i].topic \in {retry_topic, dlq_topic}
            /\ runs[i].copy.v["retry_count"] = IntV(CountOf(runs[i].event) + 1)
            /\ runs[i].copy.v["last_error"] = StrV(runs[i].exc)

\* C28: when the worker routes a failed event it leaves the dequeued event as
\* it was and publishes a copy that has the fields of the event with the same
\* values, but for retry_count, which is one greater, and last_error, which is
\* the text of the error.
C28_CopyDiffersInTwoFields ==
    \A i \in 1..Len(runs) :
        /\ runs[i].after = runs[i].event
        /\ Republished(runs[i]) =>
              /\ DOMAIN runs[i].copy.v
                     = DOMAIN runs[i].event.v \cup {"retry_count", "last_error"}
              /\ \A k \in DOMAIN runs[i].event.v \ {"retry_count", "last_error"} :
                     runs[i].copy.v[k] = runs[i].event.v[k]
              /\ runs[i].copy.v["retry_count"] = IntV(CountOf(runs[i].event) + 1)
              /\ runs[i].copy.v["last_error"] = StrV(runs[i].exc)
              /\ runs[i].copy # runs[i].after

C28_Witness ==
    \E i \in 1..Len(runs) :
        /\ runs[i].handler = "published"
        /\ runs[i].event = EvU2r2
        /\ runs[i].after = EvU2r2
        /\ runs[i].copy.v["retry_count"] = IntV(max_retries)
        /\ runs[i].copy.v["last_error"] = StrV(NoTokensError(<<"u", "2">>))
        /\ backend = "memory"
        /\ topics[dlq_topic] = <<>>

\* the run got as far as the Fetch Details stage
FetchRan(run) == run.stage \in {"fetch_details", "persist", "done"}

SubscriptionText(event) == PyStr(Get(event, "subscriptionId", EmptyStr))

\* the part of s before its first "-", or the default identity
PrefixOrDefault(s) == IF Contains(s, "-") THEN SplitFirst(s, "-") ELSE DefaultUserId

\* the run looked up the credentials of user_id and fetched for user_id
ResolvedAs(run, user_id) ==
    IF GetTokens(user_id)
    THEN /\ run.stage = "fetch_details" => run.exc = ProviderError
         /\ run.stage = "done" =>
                \A k \in RecordsOf(run.dedupe_key) :
                    output_log[k].details.user_id = user_id
    ELSE run.stage = "fetch_details" /\ run.exc = NoTokensError(user_id)

\* C29 as stated: the identity is the part of subscriptionId before its first
\* "-", or the default when it holds none
C29_PrefixOfSubscriptionIdAsStated ==
    \A i \in 1..Len(runs) :
        FetchRan(runs[i]) =>
            ResolvedAs(runs[i], PrefixOrDefault(SubscriptionText(runs[i].event)))

\* C29, amended: Fetch Details resolves the user identity from the text of
\* subscriptionId with its surrounding whitespace removed: the part before the
\* first "-" when that text holds one, the configured default identity when
\* subscriptionId is absent, empty, blank or without "-".
C29_PrefixOfStrippedSubscriptionId ==
    \A i \in 1..Len(runs) :
        FetchRan(runs[i]) =>
            ResolvedAs(runs[i], PrefixOrDefault(Strip(SubscriptionText(runs[i].event))))

C29_Witness ==
    /\ runs # <<>>
    /\ Has(runs[1].event, "subscriptionId")
    /\ runs[1].event.v["subscriptionId"] = StrV(<<" ">> \o SubU1 \o <<" ">>)
    /\ runs[1].stage = "done"
    /\ Len(output_log) = 1
    /\ output_log[1].details.user_id = <<"u", "1">>

CollectionText(event) == PyStr(Get(event, "collectionType", EmptyStr))

\* the spellings of activities, sleep and body among the inputs
KnownCollections ==
    {Activities, Sleep, Body, <<"S", "L", "E", "E", "P">>, <<"B", "o", "d", "y">>}

\* a run on an event of an unknown collectionType, with stored credentials
Noted(run) ==
    /\ run.calls = <<>>
    /\ run.stage \in {"persist", "done"}
    /\ run.stage = "persist" => run.exc = PersistError
    /\ run.stage = "done" =>
           /\ run.handler = "none"
           /\ Cardinality(RecordsOf(run.dedupe_key)) = 1
           /\ \A k \in RecordsOf(run.dedupe_key) :
                  /\ output_log[k].event = run.event
                  /\ output_log[k].details.note
                  /\ output_log[k].details.fetched = <<>>

C31_DistinctIdentityDistinctKey ==
    \A i, j \in 1..Len(runs) :
        (i < j /\ runs[i].via = raw_topic /\ runs[j].via = raw_topic
           /\ ~SameIdentity(runs[i].event, runs[j].event)) =>
            /\ runs[i].dedupe_key # runs[j].dedupe_key
            /\ DedupeKey(runs[i].event) # DedupeKey(runs[j].event)

\* the events queued under topic t, none when the topic has no queue
CopiesUnder(t) ==
    IF backend = "aws_sqs" /\ ~QueueUrlFor(queue_url_map, t).ok THEN <<>>
    ELSE Queued(topics, sqs_queues, t)

\* the copies now queued under topic t that the worker published
WorkerCopies(t) ==
    {k \in 1..Len(CopiesUnder(t)) :
        \E i \in 1..Len(runs) :
            runs[i].handler = "published" /\ runs[i].topic = t
              /\ runs[i].copy = CopiesUnder(t)[k]}

\* C32: every copy the worker published to the retry topic has a retry_count
\* from 1 to max_retries, every copy it published to the dead-letter topic
\* has one above max_retries, and every failure of Fetch Details or Persist
\* published its event to one of the two topics.
C32_RoutedToExactlyOne ==
    /\ \A i \in 1..Len(runs) :
          StageFailed(runs[i]) =>
              /\ runs[i].handler = "published"
              /\ runs[i].topic \in {retry_topic, dlq_topic}
              /\ runs[i].topic = retry_topic =>
                     /\ CountOf(runs[i].copy) >= 1
                     /\ CountOf(runs[i].copy) <= max_retries
              /\ runs[i].topic = dlq_topic => CountOf(runs[i].copy) > max_retries
    /\ \A k \in WorkerCopies(retry_topic) :
          /\ CountOf(CopiesUnder(retry_topic)[k]) >= 1
          /\ CountOf(CopiesUnder(retry_topic)[k]) <= max_retries
    /\ \A k \in WorkerCopies(dlq_topic) :
          CountOf(CopiesUnder(dlq_topic)[k]) > max_retries

\* C33: the seen-set never loses a key, and the key of every event Dedupe has
\* run on is in it from then on, whether the event was new or a duplicate and
\* whether its Fetch Details or Persist failed or not.
C33_SeenOnlyGrows ==
    /\ \A i \in 1..Len(runs) :
          runs[i].stage # "parse" => runs[i].dedupe_key \in seen
    /\ \A k \in 1..Len(output_log) : output_log[k].dedupe_key \in seen
    /\ Cardinality(seen) <= Len(runs)

C33_Witness ==
    \E i, j \in 1..Len(runs) :
        /\ i < j
        /\ runs[i].stage = "fetch_details" /\ ~runs[i].is_duplicate
        /\ runs[j].stage = "persist"
        /\ runs[i].dedupe_key # runs[j].dedupe_key
        /\ {runs[i].dedupe_key, runs[j].dedupe_key} \subseteq seen
        /\ output_log = <<>>

\* the message is one consume_batch returns the event of
Returnable(msg) == Deletable(msg) /\ msg.Body.t = "json" /\ IsDict(msg.Body.v)

\* C34: a consume_batch of the SQS client leaves in the queue, of the
\* messages it received, exactly those that lack a body or a receipt handle,
\* so that every received message with both is deleted, decoded or not; and
\* it returns the events of exactly the received messages that have both and
\* decode to an object, in their order.
C34_ReceivedIsDeleted ==
    last.op = "receive_message" =>
        /\ last.received = SubSeq(last.before, 1, Len(last.received))
        /\ sqs_queues[last.request.QueueUrl]
               = SelectSeq(last.received, Skipped)
                     \o SubSeq(last.before, Len(last.received) + 1, Len(last.before))
        /\ Len(last.ret) = Len(SelectSeq(last.received, Returnable))
        /\ \A i \in 1..Len(last.ret) :
               last.ret[i].obj = SelectSeq(last.received, Returnable)[i].Body.v

C34_Witness ==
    /\ last.op = "receive_message"
    /\ Len(last.received) = 3
    /\ last.received[1].Body = JsonDumps(NotAnObject)
    /\ last.received[2].Body.t = "empty"
    /\ last.received[3].Body.t = "text"
    /\ last.ret = <<>>
    /\ Len(sqs_queues["queue.default"]) = 1

\* C35: a consume_batch of the Pub/Sub client makes no acknowledge call when
\* its pull returned no message and otherwise exactly one, which names every
\* message of the pull, decodable or not; it returns only after that call (a
\* failing acknowledge leaves nothing returned), and once it has returned no
\* message of the pull is ready or outstanding any more.
C35_OneAcknowledgeForAll ==
    last.op = "pull" =>
        /\ last.received = SubSeq(last.before.ready, 1, Len(last.received))
        /\ last.received = <<>> => last.acks = <<>>
        /\ last.received # <<>> => last.acks = <<last.received>>
        /\ last.raised => last.ret = <<>>
        /\ ~last.raised =>
               /\ pubsub[last.subscription].outstanding = last.before.outstanding
               /\ pubsub[last.subscription].ready
                      = SubSeq(last.before.ready, Len(last.received) + 1,
                               Len(last.before.ready))
               /\ Len(last.ret) <= Len(last.received)

C35_Witness ==
    /\ last.op = "pull"
    /\ ~last.raised
    /\ Len(last.received) = 3
    /\ last.received[1].Body.t = "text"
    /\ last.received[2].Body = JsonDumps(NotAnObject)
    /\ last.received[3].Body = JsonDumps(EvU1)
    /\ Len(last.acks) = 1 /\ Len(last.acks[1]) = 3
    /\ Len(last.ret) = 1
    /\ pubsub[last.subscription] = EmptySubscription

\* the count of the drain the worker is in
Counted(raw, retry) == IF pc \in {"drain_raw", "loop_raw"} THEN raw ELSE retry

\* the run just appended to the history
NewRun == runs'[Len(runs')]

\* C36: a drain starts its count at 0; an entry of the batch that is no object
\* is passed over without a run and without counting; every other entry is run
\* and, unless an exception escapes the loop, counted, whether its run
\* completed, was skipped as a duplicate, or failed and was published to the
\* retry or the dead-letter topic; and at the end of a cycle the worker sleeps
\* exactly when both counts are 0, so not after a cycle that drained a
\* duplicate or a failed event.
C36_CountIncludesSkippedAndFailed ==
    [][/\ (pc \in {"drain_raw", "drain_retry"} /\ pc' # pc) =>
              Counted(processed_raw', processed_retry') = 0
       /\ (pc \in {"loop_raw", "loop_retry"} /\ batch # <<>> /\ batch' = Tail(batch)) =>
              IF ~IsDict(Head(batch).obj)
              THEN /\ runs' = runs
                   /\ processed_raw' = processed_raw
                   /\ processed_retry' = processed_retry
              ELSE /\ Len(runs') = Len(runs) + 1
                   /\ NewRun.event = Head(batch).obj
                   /\ Counted(processed_raw', processed_retry')
                         = Counted(processed_raw, processed_retry)
                           + (IF pc' = "crashed" THEN 0 ELSE 1)
                   /\ (\/ NewRun.stage = "done"
                       \/ NewRun.is_duplicate
                       \/ NewRun.handler = "published") => pc' # "crashed"
                   /\ NewRun.handler = "published" =>
                          NewRun.topic \in {retry_topic, dlq_topic}
       /\ CycleEnds =>
              (pc' = "sleep" <=> (processed_raw = 0 /\ processed_retry = 0))
      ]_vars

\* the worker starts a cycle straight after one whose raw drain counted a
\* failed event, published to the retry topic, and whose retry drain counted
\* that copy, skipped as a duplicate
C36_Witness ==
    /\ pc = "drain_raw"
    /\ processed_raw = 1 /\ processed_retry = 1
    /\ Len(runs) = 2
    /\ runs[1].via = raw_topic /\ runs[1].handler = "published"
    /\ runs[1].topic = retry_topic
    /\ runs[2].via = retry_topic /\ runs[2].is_duplicate

\* the methods of the in-memory client
MemMethods == {"publish", "publish_many", "consume_batch", "pop_all", "size"}

\* C37: on the in-memory transport every call of publish, publish_many,
\* consume_batch, pop_all or size for one topic leaves the queue of every
\* other topic as it was, entries and order; and a call of size leaves the
\* queue of its own topic as it was too.
C37_OtherTopicsUnchanged ==
    [][/\ \A op \in MemMethods :
             Call(op) => \A t \in Topics \ {last'.topic} : topics'[t] = topics[t]
       /\ Call("size") => topics' = topics
       /\ topics' # topics => \E op \in MemMethods \ {"size"} : Call(op)
      ]_vars

\* a pop_all emptied a topic that held events while another topic still holds,
\* in publication order, the two different events published to it
C37_Witness ==
    /\ last.op = "pop_all"
    /\ last.ret # <<>>
    /\ \E t \in Topics \ {last.topic} :
          /\ Len(topics[t]) = 2
          /\ topics[t][1] # topics[t][2]
          /\ Objs(topics[t]) = published[t]

====
